---- MODULE Spec2Model ----
(***************************************************************************)
(* A model of the GraphQL client facade (Client.do and its variants), the  *)
(* operation assembler and selection synthesizer it calls, and the         *)
(* response binder it hands the data payload to.                           *)
(*                                                                         *)
(* The repository holds several implementations of Client.do; `impl`       *)
(* selects the one a behaviour runs, `synth` the constructQuery it is      *)
(* built with.  Texts are TLA+ strings, built and compared byte for byte.  *)
(***************************************************************************)
EXTENDS Integers, Sequences, FiniteSets, TLC

VARIABLES impl, synth, url, requestOptions, queryString, lastToggle, race, th, pure

vars == <<impl, synth, url, requestOptions, queryString, lastToggle, race, th, pure>>

(***************************************************************************)
(* Bounds of the model.                                                    *)
(***************************************************************************)
MaxDefaultOpts == 1
MaxCallOpts == 1
MaxErrors == 2
MaxTypeDepth == 2
MaxKeys == 3
MaxFields == 2

(***************************************************************************)
(* Text helpers.                                                           *)
(***************************************************************************)
Ch(s, i) == SubSeq(s, i, i)

UpperLetters == "ABCDEFGHIJKLMNOPQRSTUVWXYZ"
LowerLetters == "abcdefghijklmnopqrstuvwxyz"

UpperSet ==
    {"A", "B", "C", "D", "E", "F", "G", "H", "I", "J", "K", "L", "M",
     "N", "O", "P", "Q", "R", "S", "T", "U", "V", "W", "X", "Y", "Z"}
LowerSet ==
    {"a", "b", "c", "d", "e", "f", "g", "h", "i", "j", "k", "l", "m",
     "n", "o", "p", "q", "r", "s", "t", "u", "v", "w", "x", "y", "z"}

IsUpper(c) == c \in UpperSet
IsLower(c) == c \in LowerSet

\* The place of a letter in the alphabet.
LetterIndex(letters, c) == CHOOSE i \in 1..Len(letters) : Ch(letters, i) = c

\* unicode.ToLower / unicode.ToUpper on the letters.
LowerOf(c) == Ch(LowerLetters, LetterIndex(UpperLetters, c))
UpperOf(c) == Ch(UpperLetters, LetterIndex(LowerLetters, c))

ToLowerCh(c) == IF IsUpper(c) THEN LowerOf(c) ELSE c

ToUpperCh(c) == IF IsLower(c) THEN UpperOf(c) ELSE c

RECURSIVE ConcatRange(_, _, _)
\* The concatenation of the strings ss[lo..hi]; the range is halved so that
\* long texts do not nest deeply.
ConcatRange(ss, lo, hi) ==
    IF lo > hi THEN ""
    ELSE IF lo = hi THEN ss[lo]
    ELSE ConcatRange(ss, lo, (lo + hi) \div 2) \o ConcatRange(ss, ((lo + hi) \div 2) + 1, hi)

\* The concatenation of a sequence of strings.
Concat(ss) == ConcatRange(ss, 1, Len(ss))

ToLower(s) == Concat([i \in 1..Len(s) |-> ToLowerCh(Ch(s, i))])

RECURSIVE JoinWith(_, _)
JoinWith(ss, sep) ==
    IF ss = <<>> THEN ""
    ELSE IF Len(ss) = 1 THEN ss[1]
    ELSE ss[1] \o sep \o JoinWith(Tail(ss), sep)

\* fmt's %q of one byte: a Go double-quoted literal escapes ", \ and newline.
QuoteCh(c) ==
    IF c = "\"" THEN "\\\""
    ELSE IF c = "\\" THEN "\\\\"
    ELSE IF c = "\n" THEN "\\n"
    ELSE c

\* fmt.Sprintf("%q", body)
Quote(s) == "\"" \o Concat([i \in 1..Len(s) |-> QuoteCh(Ch(s, i))]) \o "\""

\* encoding/json's string encoding of one byte (the Encoder escapes HTML).
JSONCh(c) ==
    IF c = "\"" THEN "\\\""
    ELSE IF c = "\\" THEN "\\\\"
    ELSE IF c = "\n" THEN "\\n"
    ELSE IF c = "<" THEN "\\u003c"
    ELSE IF c = ">" THEN "\\u003e"
    ELSE IF c = "&" THEN "\\u0026"
    ELSE c

JSONString(s) == "\"" \o Concat([i \in 1..Len(s) |-> JSONCh(Ch(s, i))]) \o "\""

\* url.QueryEscape of one byte: letters, digits and -_.~ stay, a space is +,
\* every other byte of the texts the model builds is %XX.
QueryEscapeCh(c) ==
    CASE c = " " -> "+"
      [] c = "{" -> "%7B"
      [] c = "}" -> "%7D"
      [] c = "\"" -> "%22"
      [] c = "\\" -> "%5C"
      [] c = ":" -> "%3A"
      [] c = "," -> "%2C"
      [] c = "(" -> "%28"
      [] c = ")" -> "%29"
      [] c = "$" -> "%24"
      [] c = "!" -> "%21"
      [] c = "[" -> "%5B"
      [] c = "]" -> "%5D"
      [] OTHER -> c

QueryEscape(s) == Concat([i \in 1..Len(s) |-> QueryEscapeCh(Ch(s, i))])

(***************************************************************************)
(* Identifier case primitive (package ident): MixedCaps -> lowerCamelCase. *)
(***************************************************************************)
\* Whether the word that holds position i of name ends at i: the last
\* character, a lower -> Upper transition, or the end of an acronym
\* (Upper -> Upper,lower; "IDs" is the plural of an initialism, not a split).
EndOfWord(name, i) ==
    \/ i = Len(name)
    \/ /\ i + 1 <= Len(name)
       /\ IsLower(Ch(name, i))
       /\ IsUpper(Ch(name, i + 1))
    \/ /\ i + 2 <= Len(name)
       /\ IsUpper(Ch(name, i))
       /\ IsUpper(Ch(name, i + 1))
       /\ IsLower(Ch(name, i + 2))
       /\ SubSeq(name, i, i + 2) # "IDs"

RECURSIVE SplitWords(_, _, _)
\* The words of name from position i on, the current word starting at w.
SplitWords(name, w, i) ==
    IF i > Len(name) THEN <<>>
    ELSE IF EndOfWord(name, i)
         THEN <<SubSeq(name, w, i)>> \o SplitWords(name, i + 1, i + 1)
         ELSE SplitWords(name, w, i + 1)

ToUpper(s) == Concat([i \in 1..Len(s) |-> ToUpperCh(Ch(s, i))])

\* The initialisms the package knows (those its tests name).
Initialisms == {"ID", "URL", "UI", "IP", "HTML", "HTTP", "HTTPS", "SQL"}

\* isInitialism: the word, whatever its case, is a known initialism.
isInitialism(word) == ToUpper(word) \in Initialisms

\* isTwoInitialisms: the places where word splits into two initialisms.
TwoInitialisms(word) ==
    {i \in 2..(Len(word) - 2) :
        isInitialism(SubSeq(word, 1, i)) /\ isInitialism(SubSeq(word, i + 1, Len(word)))}

\* A word of a MixedCaps name as the parser stores it: an initialism in
\* upper case, two joined initialisms apart, any other word as it stands.
StoredWords(word) ==
    IF isInitialism(word) THEN <<ToUpper(word)>>
    ELSE IF TwoInitialisms(word) # {}
    THEN LET i == CHOOSE i \in TwoInitialisms(word) : \A j \in TwoInitialisms(word) : i <= j
         IN  <<ToUpper(SubSeq(word, 1, i)), ToUpper(SubSeq(word, i + 1, Len(word)))>>
    ELSE <<word>>

RECURSIVE FlattenWords(_)
FlattenWords(lists) ==
    IF lists = <<>> THEN <<>> ELSE Head(lists) \o FlattenWords(Tail(lists))

ParseMixedCaps(name) ==
    LET words == SplitWords(name, 1, 1)
    IN  FlattenWords([i \in 1..Len(words) |-> StoredWords(words[i])])

\* The emitter that leaves the case of a word alone.
WordAsIs(word) == word

\* Title case of one word: first character upper, the rest lower.
TitleWord(word) ==
    IF word = "" THEN ""
    ELSE ToUpperCh(Ch(word, 1)) \o ToLower(SubSeq(word, 2, Len(word)))

ToLowerCamelCase(words) ==
    Concat([i \in 1..Len(words) |->
              IF i = 1 THEN ToLower(words[i]) ELSE TitleWord(words[i])])

\* A word as MixedCaps spells it: an initialism in upper case, any other
\* word with its first letter in upper case and the rest in lower case.
MixedCapsWord(word) == IF isInitialism(word) THEN ToUpper(word) ELSE TitleWord(word)

ToMixedCaps(words) == Concat([i \in 1..Len(words) |-> MixedCapsWord(words[i])])

RECURSIVE SplitAtUpper(_, _, _)
\* The words of a lowerCamelCase name: a word ends before every upper-case
\* letter and at the end.
SplitAtUpper(name, w, i) ==
    IF i > Len(name) THEN <<>>
    ELSE IF i = Len(name) \/ IsUpper(Ch(name, i + 1))
         THEN <<SubSeq(name, w, i)>> \o SplitAtUpper(name, i + 1, i + 1)
         ELSE SplitAtUpper(name, w, i + 1)

ParseLowerCamelCase(name) == SplitAtUpper(name, 1, 1)

RECURSIVE SplitAtUnderscore(_, _, _)
\* strings.Split(name, "_")
SplitAtUnderscore(name, w, i) ==
    IF i > Len(name) THEN <<SubSeq(name, w, Len(name))>>
    ELSE IF Ch(name, i) = "_"
         THEN <<SubSeq(name, w, i - 1)>> \o SplitAtUnderscore(name, i + 1, i + 1)
         ELSE SplitAtUnderscore(name, w, i + 1)

ParseScreamingSnakeCase(name) == SplitAtUnderscore(name, 1, 1)

(***************************************************************************)
(* Host types, as reflect sees them.  elem holds the element type of a     *)
(* pointer or slice (a sequence of length one), fields the fields of a     *)
(* struct; unmarshaler says that the pointer to the type implements        *)
(* json.Unmarshaler; tag is the looked-up `graphql` tag (length one) or    *)
(* <<>> when the field has none; len is the length of an array type.       *)
(***************************************************************************)
NamedType(name, kind) ==
    [kind |-> kind, name |-> name, elem |-> <<>>, fields |-> <<>>, unmarshaler |-> FALSE,
     len |-> 0]
PtrTo(t) ==
    [kind |-> "Ptr", name |-> "", elem |-> <<t>>, fields |-> <<>>, unmarshaler |-> FALSE,
     len |-> 0]
SliceOf(t) ==
    [kind |-> "Slice", name |-> "", elem |-> <<t>>, fields |-> <<>>, unmarshaler |-> FALSE,
     len |-> 0]
StructOf(fields) ==
    [kind |-> "Struct", name |-> "", elem |-> <<>>, fields |-> fields, unmarshaler |-> FALSE,
     len |-> 0]
\* [n]t
ArrayOf(t, n) ==
    [kind |-> "Array", name |-> "", elem |-> <<t>>, fields |-> <<>>, unmarshaler |-> FALSE,
     len |-> n]
Field(name, tag, t) ==
    [name |-> name, tag |-> tag, json |-> <<>>, anonymous |-> FALSE, type |-> t]
\* A field with a json tag and no graphql tag.
JSONField(name, jsonTag, t) ==
    [name |-> name, tag |-> <<>>, json |-> <<jsonTag>>, anonymous |-> FALSE, type |-> t]
\* An embedded field: its name is the name of its type.
Embedded(name, t) ==
    [name |-> name, tag |-> <<>>, json |-> <<>>, anonymous |-> TRUE, type |-> t]

(***************************************************************************)
(* Selection synthesizer.                                                  *)
(***************************************************************************)
\* What writeQuery writes for the name of field f.
\* The entry name without the conversion: the tag, or the Go name as declared.
fieldNameAsDeclared(f) ==
    IF f.tag # <<>> THEN f.tag[1] ELSE f.name

fieldName(f) ==
    IF f.tag # <<>> THEN f.tag[1] ELSE ToLowerCamelCase(ParseMixedCaps(f.name))

RECURSIVE writeQuery(_, _)
\* The minified selection written for type t; inline says that the fields of
\* t are inlined into the parent struct.
writeQuery(t, inline) ==
    CASE t.kind \in {"Ptr", "Slice"} -> writeQuery(t.elem[1], FALSE)
      [] t.kind = "Struct" ->
            IF t.unmarshaler THEN ""
            ELSE (IF inline THEN "" ELSE "{")
                 \o JoinWith([i \in 1..Len(t.fields) |->
                       LET f == t.fields[i]
                           ok == f.tag # <<>>
                           inlineField == f.anonymous /\ ~ok
                       IN  (IF inlineField THEN "" ELSE fieldName(f))
                           \o writeQuery(f.type, inlineField)], ",")
                 \o (IF inline THEN "" ELSE "}")
      [] OTHER -> ""

\* query(v): only the type of v is read.
query(t) == writeQuery(t, FALSE)

(***************************************************************************)
(* The synthesizer of query.go, which walks the value next to the type.    *)
(* A reflect.Value: valid is IsValid(); nil marks a nil pointer, slice or  *)
(* interface; kids holds the target of a pointer, the fields of a struct,  *)
(* the elements of a slice or array, or the value an interface holds, and  *)
(* then dyn holds that value's type.                                       *)
(***************************************************************************)
InvalidValue == [valid |-> FALSE, nil |-> FALSE, kids |-> <<>>, dyn |-> <<>>, s |-> ""]
HNil == [valid |-> TRUE, nil |-> TRUE, kids |-> <<>>, dyn |-> <<>>, s |-> ""]
HGroup(kids) == [valid |-> TRUE, nil |-> FALSE, kids |-> kids, dyn |-> <<>>, s |-> ""]
HString(str) == [valid |-> TRUE, nil |-> FALSE, kids |-> <<>>, dyn |-> <<>>, s |-> str]
HIface(t, v) == [valid |-> TRUE, nil |-> FALSE, kids |-> <<v>>, dyn |-> <<t>>, s |-> ""]

IndexSafe(v, i) ==
    IF v.valid /\ i < Len(v.kids) THEN v.kids[i + 1] ELSE InvalidValue

\* v.Elem() of a nil pointer is the zero Value.
ElemSafe(v) ==
    IF v.valid THEN (IF v.nil THEN InvalidValue ELSE v.kids[1]) ELSE InvalidValue

FieldSafe(valStruct, i) ==
    IF valStruct.valid THEN valStruct.kids[i + 1] ELSE InvalidValue

\* What a call wrote, or the panic that ended it.
Wrote(text) == [panic |-> <<>>, text |-> text]
Panics(msg) == [panic |-> <<msg>>, text |-> ""]

RECURSIVE writeQueryV(_, _, _)
RECURSIVE writeFieldsV(_, _, _, _)
RECURSIVE writePairsV(_, _, _)

\* writeQuery of query.go descending only into pointers that point somewhere.
writeQueryVNilStops(t, v, inline) ==
    CASE t.kind = "Ptr" ->
            IF ~v.valid \/ v.nil THEN Wrote("")
            ELSE writeQueryV(t.elem[1], v.kids[1], FALSE)
      [] t.kind = "Struct" ->
            IF t.unmarshaler THEN Wrote("")
            ELSE LET r == writeFieldsV(t, v, 0, IF inline THEN "" ELSE "{")
                 IN  IF r.panic # <<>> THEN r
                     ELSE Wrote(r.text \o (IF inline THEN "" ELSE "}"))
      [] t.kind = "Slice" ->
            IF t.elem[1].kind # "Array"
            THEN writeQueryV(t.elem[1], IndexSafe(v, 0), FALSE)
            ELSE IF t.elem[1].len # 2
            THEN Panics("only arrays of len 2 are supported, got ["
                        \o ToString(t.elem[1].len) \o "]interface {}")
            ELSE IF ~v.valid
            THEN Panics("reflect: call of reflect.Value.Len on zero Value")
            ELSE LET r == writePairsV(v, 0, "{")
                 IN  IF r.panic # <<>> THEN r ELSE Wrote(r.text \o "}")
      [] t.kind = "Map" ->
            Panics("type map[string]interface {} is not supported, use [][2]interface{} instead")
      [] OTHER -> Wrote("")

\* writeQuery(w, t, v, inline) of query.go.
writeQueryV(t, v, inline) ==
    CASE t.kind = "Ptr" -> writeQueryV(t.elem[1], ElemSafe(v), FALSE)
      [] t.kind = "Struct" ->
            IF t.unmarshaler THEN Wrote("")
            ELSE LET r == writeFieldsV(t, v, 0, IF inline THEN "" ELSE "{")
                 IN  IF r.panic # <<>> THEN r
                     ELSE Wrote(r.text \o (IF inline THEN "" ELSE "}"))
      [] t.kind = "Slice" ->
            IF t.elem[1].kind # "Array"
            THEN writeQueryV(t.elem[1], IndexSafe(v, 0), FALSE)
            ELSE IF t.elem[1].len # 2
            THEN Panics("only arrays of len 2 are supported, got ["
                        \o ToString(t.elem[1].len) \o "]interface {}")
            ELSE IF ~v.valid
            THEN Panics("reflect: call of reflect.Value.Len on zero Value")
            ELSE LET r == writePairsV(v, 0, "{")
                 IN  IF r.panic # <<>> THEN r ELSE Wrote(r.text \o "}")
      [] t.kind = "Map" ->
            Panics("type map[string]interface {} is not supported, use [][2]interface{} instead")
      [] OTHER -> Wrote("")

\* The loop over the fields i.. of struct type t, buf being what was
\* written so far.
writeFieldsV(t, v, i, buf) ==
    IF i >= Len(t.fields) THEN Wrote(buf)
    ELSE LET f == t.fields[i + 1]
             inlineField == f.anonymous /\ f.tag = <<>>
             r == writeQueryV(f.type, FieldSafe(v, i), inlineField)
         IN  IF r.panic # <<>> THEN r
             ELSE writeFieldsV(t, v, i + 1,
                     buf \o (IF i # 0 THEN "," ELSE "")
                         \o (IF inlineField THEN "" ELSE fieldName(f)) \o r.text)

\* The loop over the pairs i.. of sliceOfPairs.
writePairsV(sliceOfPairs, i, buf) ==
    IF i >= Len(sliceOfPairs.kids) THEN Wrote(buf)
    ELSE LET pair == sliceOfPairs.kids[i + 1]
             key == pair.kids[1]
             val == pair.kids[2]
         IN  IF key.nil \/ key.dyn[1].kind # "String"
             THEN Panics("interface conversion: interface {} is not string")
             ELSE IF val.nil
             THEN Panics("reflect: call of reflect.Value.Type on zero Value")
             ELSE LET r == writeQueryV(val.dyn[1], val.kids[1], FALSE)
                  IN  IF r.panic # <<>> THEN r
                      ELSE writePairsV(sliceOfPairs, i + 1, buf \o key.kids[1].s \o r.text)

\* query(v) of query.go.
queryV(t, v) == writeQueryV(t, v, FALSE)

RECURSIVE querifyType(_, _, _)
\* querifyContext.querifyType: scalars is the registry c.Scalars.
querifyType(scalars, t, inline) ==
    CASE t.kind \in {"Ptr", "Slice"} -> querifyType(scalars, t.elem[1], FALSE)
      [] t.kind = "Struct" ->
            IF t \in scalars THEN ""
            ELSE (IF inline THEN "" ELSE "{")
                 \o JoinWith([i \in 1..Len(t.fields) |->
                       LET f == t.fields[i]
                           inlineField == f.anonymous /\ f.tag = <<>>
                       IN  (IF inlineField THEN "" ELSE fieldName(f))
                           \o querifyType(scalars, f.type, inlineField)], ",")
                 \o (IF inline THEN "" ELSE "}")
      [] OTHER -> ""

\* querifyContext.Querify
Querify(scalars, t) == querifyType(scalars, t, FALSE)

(***************************************************************************)
(* Variables: a map from names to values.  isNil tells a nil map from an   *)
(* empty one; of a value the model keeps its host type and its JSON        *)
(* encoding (<<>> when encoding/json cannot encode it).                    *)
(***************************************************************************)
RECURSIVE writeArgumentType(_, _)
writeArgumentType(t, value) ==
    IF t.kind = "Ptr" THEN writeArgumentType(t.elem[1], FALSE)
    ELSE (IF t.kind \in {"Slice", "Array"}
          THEN "[" \o writeArgumentType(t.elem[1], TRUE) \o "]"
          ELSE IF t.name = "string" THEN "ID" ELSE t.name)
         \o (IF value THEN "!" ELSE "")

\* The keys of a variables map in ascending order (sort.Strings); the model's
\* keys are single letters, compared by their place in the alphabet.
KeyRank(k) == LetterIndex(LowerLetters, k)

RECURSIVE SortKeys(_)
SortKeys(ks) ==
    IF ks = {} THEN <<>>
    ELSE LET m == CHOOSE k \in ks : \A o \in ks : KeyRank(k) <= KeyRank(o)
         IN  <<m>> \o SortKeys(ks \ {m})

VarKeys(variables) == SortKeys(DOMAIN variables.m)
VarLen(variables) == Cardinality(DOMAIN variables.m)

queryArguments(variables) ==
    Concat([i \in 1..VarLen(variables) |->
        LET k == VarKeys(variables)[i]
        IN  "$" \o k \o ":" \o writeArgumentType(variables.m[k].type, TRUE)])

\* sort.Strings(keys), keys being the keys of a map in the order `range`
\* happened to yield them.
\* The keys as `range` yielded them: the slice without sort.Strings.
KeysAsRanged(keys) == keys

SortStrings(keys) == SortKeys({keys[i] : i \in 1..Len(keys)})

\* queryArguments, with the order in which `for k := range variables`
\* yields the keys as an input.
queryArgumentsRanged(variables, ranged) ==
    LET keys == SortStrings(ranged)
    IN  Concat([i \in 1..Len(keys) |->
            "$" \o keys[i] \o ":" \o writeArgumentType(variables.m[keys[i]].type, TRUE)])

\* The type switch of the older queryArguments: one level, not recursive.
argumentTypeFlat(t) ==
    IF t.kind \in {"Slice", "Array"} THEN "[" \o t.elem[1].name \o "!]"
    ELSE IF t.kind = "Ptr" THEN t.elem[1].name
    ELSE (IF t.name = "string" THEN "ID" ELSE t.name) \o "!"

\* The older queryArguments.
queryArgumentsFlat(variables) ==
    Concat([i \in 1..VarLen(variables) |->
        LET k == VarKeys(variables)[i]
        IN  "$" \o k \o ":" \o argumentTypeFlat(variables.m[k].type)])

\* constructQuery / constructMutation as built with `len(variables) > 0`.
constructQueryLen(t, variables) ==
    IF VarLen(variables) > 0
    THEN "query(" \o queryArguments(variables) \o ")" \o query(t)
    ELSE query(t)

\* constructMutation sharing constructQuery's fallback: no keyword without variables.
constructMutationLenBare(t, variables) ==
    IF VarLen(variables) > 0
    THEN "mutation(" \o queryArguments(variables) \o ")" \o query(t)
    ELSE query(t)

constructMutationLen(t, variables) ==
    IF VarLen(variables) > 0
    THEN "mutation(" \o queryArguments(variables) \o ")" \o query(t)
    ELSE "mutation" \o query(t)

\* constructQuery / constructMutation as built with `variables != nil`.
constructQueryNil(t, variables) ==
    IF ~variables.isNil
    THEN "query(" \o queryArgumentsFlat(variables) \o ")" \o query(t)
    ELSE query(t)

constructMutationNil(t, variables) ==
    IF ~variables.isNil
    THEN "mutation(" \o queryArgumentsFlat(variables) \o ")" \o query(t)
    ELSE "mutation" \o query(t)

constructQuery(sy, t, variables) ==
    IF sy = "len" THEN constructQueryLen(t, variables) ELSE constructQueryNil(t, variables)

constructMutation(sy, t, variables) ==
    IF sy = "len" THEN constructMutationLen(t, variables)
    ELSE constructMutationNil(t, variables)

(***************************************************************************)
(* The request envelope {query, variables} as json.Encoder writes it:      *)
(* `variables` has omitempty, so a nil and an empty map are both left out; *)
(* map keys are written sorted; Encode ends the value with a newline.      *)
(* <<>> stands for an encoding failure.                                    *)
(***************************************************************************)
Encodable(variables) == \A k \in DOMAIN variables.m : variables.m[k].json # <<>>

MarshalVariables(variables) ==
    IF variables.isNil THEN "null"
    ELSE "{" \o JoinWith([i \in 1..VarLen(variables) |->
                 LET k == VarKeys(variables)[i]
                 IN  JSONString(k) \o ":" \o variables.m[k].json[1]], ",") \o "}"

EncodeRequest(q, variables) ==
    IF ~Encodable(variables) THEN <<>>
    ELSE <<"{\"query\":" \o JSONString(q)
           \o (IF VarLen(variables) > 0
               THEN ",\"variables\":" \o MarshalVariables(variables) ELSE "")
           \o "}\n">>


(***************************************************************************)
(* JSON values, as a tree: t is the kind, s the text of a string or the    *)
(* literal of a number, kids the members <<[k, v], ...>> of an object in   *)
(* wire order or the elements of an array.                                 *)
(***************************************************************************)
JNull == [t |-> "null", s |-> "", kids |-> <<>>]
JStr(s) == [t |-> "str", s |-> s, kids |-> <<>>]
JNum(s) == [t |-> "num", s |-> s, kids |-> <<>>]
JObj(kvs) == [t |-> "obj", s |-> "", kids |-> kvs]
JArr(items) == [t |-> "arr", s |-> "", kids |-> items]
KV(k, v) == [k |-> k, v |-> v]

RECURSIVE Render(_)
\* The bytes of a JSON value on the wire.
Render(n) ==
    CASE n.t = "null" -> "null"
      [] n.t = "str" -> JSONString(n.s)
      [] n.t = "num" -> n.s
      [] n.t = "obj" ->
            "{" \o JoinWith([i \in 1..Len(n.kids) |->
                     JSONString(n.kids[i].k) \o ":" \o Render(n.kids[i].v)], ",") \o "}"
      [] OTHER ->
            "[" \o JoinWith([i \in 1..Len(n.kids) |-> Render(n.kids[i])], ",") \o "]"

\* A response body: its JSON value (<<>> when the bytes are no JSON value, and
\* then text holds the bytes) and whether reading it fails.
Body(text, json) == [text |-> text, json |-> json, readErr |-> FALSE]
JSONBody(n) == Body("", <<n>>)
\* The bytes of a body.
RawOf(body) == IF body.json = <<>> THEN body.text ELSE Render(body.json[1])

(***************************************************************************)
(* Destination values.  A scalar holds its text in s; a struct its field   *)
(* values in kids; a pointer is nil or holds its target as kids[1]; a      *)
(* slice is nil or holds its elements in kids.                             *)
(***************************************************************************)
NilVal == [nil |-> TRUE, s |-> "", kids |-> <<>>]
ScalarVal(s) == [nil |-> FALSE, s |-> s, kids |-> <<>>]
GroupVal(kids) == [nil |-> FALSE, s |-> "", kids |-> kids]

RECURSIVE ZeroOf(_)
ZeroOf(t) ==
    CASE t.kind \in {"Ptr", "Slice", "Interface"} -> NilVal
      [] t.kind = "Struct" -> GroupVal([i \in 1..Len(t.fields) |-> ZeroOf(t.fields[i].type)])
      [] OTHER -> ScalarVal("")

(***************************************************************************)
(* Response binder (jsonutil.UnmarshalGraphQL).                            *)
(***************************************************************************)
RECURSIVE TrimSpace(_)
TrimSpace(s) ==
    IF s = "" THEN ""
    ELSE IF Ch(s, 1) = " " THEN TrimSpace(Tail(s))
    ELSE IF Ch(s, Len(s)) = " " THEN TrimSpace(SubSeq(s, 1, Len(s) - 1))
    ELSE s

\* The tag up to its first "(", ":" or "@": the alias or the bare field name.
TagName(tag) ==
    LET cut == {i \in 1..Len(tag) : Ch(tag, i) \in {"(", ":", "@"}}
    IN  IF cut = {} THEN TrimSpace(tag)
        ELSE TrimSpace(SubSeq(tag, 1, (CHOOSE i \in cut : \A j \in cut : i <= j) - 1))

\* The binder that takes unexported fields for destinations too.
AnyFieldVisible(f) == TRUE

\* The field is exported: its name starts with an upper-case letter.
IsExported(f) == IsUpper(Ch(f.name, 1))

\* The graphql tag of f is an inline fragment (`... on X`).
isGraphQLFragment(f) ==
    f.tag # <<>> /\ Len(TrimSpace(f.tag[1])) >= 3 /\ SubSeq(TrimSpace(f.tag[1]), 1, 3) = "..."

\* The type X of the fragment tag `... on X`.
FragmentOn(f) ==
    LET tag == TrimSpace(f.tag[1])
    IN  IF Len(tag) >= 6 /\ SubSeq(tag, 1, 6) = "... on" THEN TrimSpace(SubSeq(tag, 7, Len(tag)))
        ELSE ""

\* The binder that lets a json tag name the key of a field without a
\* graphql tag.
hasGraphQLNameOrJSONTag(f, key) ==
    IF f.tag # <<>>
    THEN ~isGraphQLFragment(f) /\ TagName(f.tag[1]) = key
    ELSE IF f.json # <<>> THEN f.json[1] = key
    ELSE ToLower(f.name) = ToLower(key)

\* Whether field f is the destination of JSON key `key`: by its graphql tag
\* without arguments, else by its name whatever the case; a json tag is not
\* looked at.
hasGraphQLName(f, key) ==
    IF f.tag # <<>>
    THEN ~isGraphQLFragment(f) /\ TagName(f.tag[1]) = key
    ELSE ToLower(f.name) = ToLower(key)

Unplaceable(key, places) ==
    "struct field for " \o Quote(key) \o " doesn't exist in any of " \o ToString(places)
        \o " places to unmarshal"

BindOK(val) == [err |-> <<>>, val |-> val]
BindErr(msg, val) == [err |-> <<msg>>, val |-> val]

\* The two binders the tests of src/ were written for: jsonutil (part_004)
\* fills every inline fragment, graphjson (graphql_test.go) the one that
\* the object's __typename names.
Binders == {"jsonutil", "graphjson"}

RECURSIVE Deref(_)
\* Type t without the pointers around it.
Deref(t) == IF t.kind = "Ptr" THEN Deref(t.elem[1]) ELSE t

RECURSIVE DerefVal(_, _)
\* The value the pointers of type t lead to, allocated where they are nil.
DerefVal(t, val) ==
    IF t.kind # "Ptr" THEN val
    ELSE DerefVal(t.elem[1], IF val.nil THEN ZeroOf(t.elem[1]) ELSE val.kids[1])

RECURSIVE Reref(_, _)
\* Pointers of type t, freshly set, around the value new.
Reref(t, new) == IF t.kind # "Ptr" THEN new ELSE GroupVal(<<Reref(t.elem[1], new)>>)

\* The binder that appends to the elements a slice holds already.
KeepSlice(val) == IF val.nil THEN GroupVal(<<>>) ELSE val

\* The slice val as an array starts to fill it: empty, not nil.
ResetSlice(val) == GroupVal(<<>>)

\* The binder that leaves a destination alone on JSON null.
NullKeeps(t, val) == val

\* JSON null bound into a destination of type t.
NullInto(t, val) == IF t.kind \in {"Ptr", "Slice", "Interface"} THEN NilVal ELSE val

\* Why JSON value n (not null) cannot go into a destination of type t (not
\* a pointer), <<>> when it can.
ShapeMismatch(t, n, places) ==
    CASE t.kind = "Slice" ->
            IF n.t # "arr"
            THEN <<"slice doesn't exist in any of " \o ToString(places) \o " places to unmarshal">>
            ELSE <<>>
      [] t.kind = "Struct" ->
            IF n.t # "obj" THEN <<"json: cannot unmarshal into Go value of type struct">>
            ELSE <<>>
      [] OTHER ->
            IF n.t \in {"obj", "arr"} THEN <<"unexpected token in scalar">>
            ELSE IF t.kind = "String" /\ n.t # "str"
                 THEN <<"json: cannot unmarshal number into Go value of type string">>
            ELSE <<>>

\* The paths with index c put before each.
PrefixAll(c, paths) == [q \in 1..Len(paths) |-> <<c>> \o paths[q]]

RECURSIVE FieldPaths(_, _, _, _)
\* The places of key among the fields j.. of record type t: the paths (field
\* indices) to the visible fields named key, those promoted out of inline
\* fragments included.  only is <<X>> when just the fragments on X count.
FieldPaths(only, t, key, j) ==
    IF j > Len(t.fields) THEN <<>>
    ELSE (IF ~IsExported(t.fields[j]) THEN <<>>
          ELSE IF isGraphQLFragment(t.fields[j])
          THEN IF \/ (only # <<>> /\ FragmentOn(t.fields[j]) # only[1])
                  \/ Deref(t.fields[j].type).kind # "Struct"
               THEN <<>>
               ELSE PrefixAll(j, FieldPaths(only, Deref(t.fields[j].type), key, 1))
          ELSE IF hasGraphQLName(t.fields[j], key) THEN << <<j>> >>
          ELSE <<>>)
         \o FieldPaths(only, t, key, j + 1)

RECURSIVE FramePaths(_, _, _, _)
\* The places of key in the candidates c.. of the frame ts: <<c>> \o path.
FramePaths(only, ts, key, c) ==
    IF c > Len(ts) THEN <<>>
    ELSE PrefixAll(c, FieldPaths(only, ts[c], key, 1)) \o FramePaths(only, ts, key, c + 1)

RECURSIVE TypeAt(_, _)
\* The type of the field at path in record type t.
TypeAt(t, path) ==
    IF Len(path) = 1 THEN t.fields[path[1]].type
    ELSE TypeAt(Deref(t.fields[path[1]].type), Tail(path))

RECURSIVE ValueAt(_, _, _)
\* The value of the field at path in the record val of type t.
ValueAt(t, val, path) ==
    IF Len(path) = 1 THEN val.kids[path[1]]
    ELSE LET ft == t.fields[path[1]].type
         IN  ValueAt(Deref(ft), DerefVal(ft, val.kids[path[1]]), Tail(path))

RECURSIVE SetAt(_, _, _, _)
\* The record val of type t with new stored at path; a pointer-typed
\* fragment on the way is allocated.
SetAt(t, val, path, new) ==
    IF Len(path) = 1 THEN GroupVal([val.kids EXCEPT ![path[1]] = new])
    ELSE GroupVal([val.kids EXCEPT ![path[1]] =
            Reref(t.fields[path[1]].type,
                  SetAt(Deref(t.fields[path[1]].type),
                        DerefVal(t.fields[path[1]].type, val.kids[path[1]]), Tail(path), new))])

\* The binder that fills only the first place of a key.
StoreFirst(ts, vals, places, news, q) ==
    LET c == places[1][1]
    IN  [vals EXCEPT ![c] = SetAt(ts[c], vals[c], Tail(places[1]), news[1])]

RECURSIVE StoreAll(_, _, _, _, _)
\* The frame vals after news[q..] are stored at places[q..].
StoreAll(ts, vals, places, news, q) ==
    IF q > Len(places) THEN vals
    ELSE StoreAll(ts, [vals EXCEPT ![places[q][1]] =
                          SetAt(ts[places[q][1]], vals[places[q][1]], Tail(places[q]), news[q])],
                  places, news, q + 1)

\* The binder that knows the type only when __typename is the first key.
TypenameIfFirst(b, kvs) ==
    IF b = "graphjson" /\ kvs # <<>> /\ kvs[1].k = "__typename" /\ kvs[1].v.t = "str"
    THEN <<kvs[1].v.s>> ELSE <<>>

\* The fragments an object's keys go to: all of them, or in graphjson the
\* ones on the type its __typename key names.
TypenameOf(b, kvs) ==
    LET at == {i \in 1..Len(kvs) : kvs[i].k = "__typename" /\ kvs[i].v.t = "str"}
    IN  IF b = "graphjson" /\ at # {} THEN <<kvs[CHOOSE i \in at : TRUE].v.s>> ELSE <<>>

RECURSIVE BindFrame(_, _, _, _)
RECURSIVE BindDeref(_, _, _, _)
RECURSIVE BindKeys(_, _, _, _, _, _)
RECURSIVE KeyPlaced(_, _, _, _, _, _, _)
RECURSIVE KeyBound(_, _, _, _, _, _)
RECURSIVE BindElems(_, _, _, _, _)
RECURSIVE ElemBound(_, _, _, _, _)

\* The outcome r of binding into what the pointers of ts lead to, as the
\* outcome for the frame: the pointers are set around the values.
Rewrap(ts, r) == [err |-> r.err, vals |-> [c \in 1..Len(ts) |-> Reref(ts[c], r.vals[c])]]

\* JSON value n bound into every candidate destination of a frame: ts are
\* their types, vals their values before.  [err, vals]: the values after.
BindFrame(b, ts, vals, n) ==
    IF n.t = "null"
    THEN [err |-> <<>>, vals |-> [c \in 1..Len(ts) |-> NullInto(ts[c], vals[c])]]
    ELSE Rewrap(ts, BindDeref(b, [c \in 1..Len(ts) |-> Deref(ts[c])],
                              [c \in 1..Len(ts) |-> DerefVal(ts[c], vals[c])], n))

\* The same for a value that is not null and destinations that are not
\* pointers.
BindDeref(b, ts, vals, n) ==
    IF \E c \in 1..Len(ts) : ShapeMismatch(ts[c], n, Len(ts)) # <<>>
    THEN [err |-> ShapeMismatch(ts[CHOOSE c \in 1..Len(ts) :
                                      /\ ShapeMismatch(ts[c], n, Len(ts)) # <<>>
                                      /\ \A o \in 1..(c - 1) :
                                            ShapeMismatch(ts[o], n, Len(ts)) = <<>>],
                                n, Len(ts)),
          vals |-> vals]
    ELSE IF n.t = "obj" THEN BindKeys(b, TypenameOf(b, n.kids), ts, vals, n.kids, 1)
    ELSE IF n.t = "arr"
    THEN BindElems(b, ts, [c \in 1..Len(ts) |-> ResetSlice(vals[c])], n.kids, 1)
    ELSE [err |-> <<>>, vals |-> [c \in 1..Len(ts) |-> ScalarVal(n.s)]]

\* The members kvs[i..] of an object bound into the records of the frame, in
\* order; the first key without a place ends the binding.
BindKeys(b, only, ts, vals, kvs, i) ==
    IF i > Len(kvs) THEN [err |-> <<>>, vals |-> vals]
    ELSE KeyPlaced(b, only, ts, vals, kvs, i, FramePaths(only, ts, kvs[i].k, 1))

\* The outcome r of binding a member's value into its places, stored.
Stored(ts, vals, places, r) ==
    [err |-> r.err, vals |-> StoreAll(ts, vals, places, r.vals, 1)]

\* Member i, whose places in the frame are known, is bound into them.
KeyPlaced(b, only, ts, vals, kvs, i, places) ==
    IF places = <<>>
    THEN [err |-> <<Unplaceable(kvs[i].k, Len(ts))>>, vals |-> vals]
    ELSE KeyBound(b, only, ts, kvs, i,
            Stored(ts, vals, places,
                BindFrame(b,
                    [q \in 1..Len(places) |-> TypeAt(ts[places[q][1]], Tail(places[q]))],
                    [q \in 1..Len(places) |->
                        ValueAt(ts[places[q][1]], vals[places[q][1]], Tail(places[q]))],
                    kvs[i].v)))

\* After member i was bound with outcome r: the next member, or the failure.
KeyBound(b, only, ts, kvs, i, r) ==
    IF r.err # <<>> THEN r ELSE BindKeys(b, only, ts, r.vals, kvs, i + 1)

\* The outcome r of binding an element, appended to the slices vals.
Appended(vals, r) ==
    [err |-> r.err, vals |-> [c \in 1..Len(vals) |-> GroupVal(Append(vals[c].kids, r.vals[c]))]]

\* The elements items[k..] of an array appended to the (reset) slices vals.
BindElems(b, ts, vals, items, k) ==
    IF k > Len(items) THEN [err |-> <<>>, vals |-> vals]
    ELSE ElemBound(b, ts, items, k,
            Appended(vals, BindFrame(b, [c \in 1..Len(ts) |-> ts[c].elem[1]],
                                     [c \in 1..Len(ts) |-> ZeroOf(ts[c].elem[1])], items[k])))

\* After element k was bound with outcome r: the next one, or the failure.
ElemBound(b, ts, items, k, r) ==
    IF r.err # <<>> THEN r ELSE BindElems(b, ts, r.vals, items, k + 1)

\* The value of destination val of type t after JSON value n is bound into
\* it by binder b.
BindBy(b, t, val, n) ==
    LET r == BindFrame(b, <<t>>, <<val>>, n)
    IN  [err |-> r.err, val |-> r.vals[1]]

\* jsonutil, the binder of Client.do.
Bind(t, val, n) == BindBy("jsonutil", t, val, n)

\* UnmarshalGraphQL(data, v): data is the payload (<<>> when it holds no
\* bytes), v points to a value of type t.
UnmarshalGraphQL(data, t, val) ==
    IF data = <<>> THEN BindErr("unexpected end of JSON input", val)
    ELSE Bind(t, val, data[1])

\* JSON whitespace.
Whitespace == {" ", "\t", "\n", "\r"}

RECURSIVE SkipWhitespace(_)
\* The tokenizer that takes whitespace for a token.
NoSkip(s) == s

\* The input from its first byte that is not whitespace on.
SkipWhitespace(s) ==
    IF s = "" THEN ""
    ELSE IF Ch(s, 1) \in Whitespace THEN SkipWhitespace(Tail(s))
    ELSE s

\* The first token of s (s does not start with whitespace): a delimiter, or
\* the literal up to the next whitespace or delimiter.
NextToken(s) ==
    IF Ch(s, 1) \in {"{", "["} THEN Ch(s, 1)
    ELSE LET stop == {i \in 2..Len(s) : Ch(s, i) \in Whitespace \cup {",", "{", "[", "}", "]"}}
         IN  IF stop = {} THEN s
             ELSE SubSeq(s, 1, (CHOOSE i \in stop : \A j \in stop : i <= j) - 1)

\* Unmarshal([]byte, v) on the bytes of root followed by the bytes rest: the
\* root value is bound, then only whitespace may follow up to the end.
UnmarshalFollowed(root, rest, t, val) ==
    LET r == UnmarshalGraphQL(<<root>>, t, val)
        more == SkipWhitespace(rest)
    IN  IF r.err # <<>> \/ more = "" THEN r
        ELSE BindErr("invalid token '" \o NextToken(more) \o "' after top-level value", r.val)


(***************************************************************************)
(* The response envelope {data, errors, extensions} as encoding/json       *)
(* decodes it into Client.do's `out`.                                      *)
(***************************************************************************)
\* Whether `out.Data` is a *json.RawMessage (nil for an absent or null
\* `data`) or a json.RawMessage (which keeps the bytes `null`).
DataIsPointer(im) == im # "custom"
\* Whether `out` has an Extensions field.
HasExtensions(im) == im = "options"

\* The value of the last member of object n whose key folds to name, or <<>>.
Member(n, name) ==
    LET hit == {i \in 1..Len(n.kids) : ToLower(n.kids[i].k) = name}
    IN  IF hit = {} THEN <<>>
        ELSE <<n.kids[CHOOSE i \in hit : \A j \in hit : j <= i].v>>

NumberOrZero(m) == IF m # <<>> /\ m[1].t = "num" THEN m[1].s ELSE "0"

\* One {line, column} of an error's locations.
DecodeLocation(n) ==
    IF n.t # "obj" THEN [Line |-> "0", Column |-> "0"]
    ELSE [Line |-> NumberOrZero(Member(n, "line")),
          Column |-> NumberOrZero(Member(n, "column"))]

\* One entry of the errors array: its message and locations; other keys
\* (path, type) have no field and are skipped.
DecodeErrorEntry(n) ==
    IF n.t # "obj" THEN [Message |-> "", Locations |-> <<>>]
    ELSE LET m == Member(n, "message")
             l == Member(n, "locations")
         IN  [Message |-> IF m # <<>> /\ m[1].t = "str" THEN m[1].s ELSE "",
              Locations |-> IF l # <<>> /\ l[1].t = "arr"
                            THEN [i \in 1..Len(l[1].kids) |-> DecodeLocation(l[1].kids[i])]
                            ELSE <<>>]

\* Whether encoding/json reports a type error for the errors member.
ErrorsIllTyped(n) ==
    \/ n.t \notin {"arr", "null"}
    \/ /\ n.t = "arr"
       /\ \E i \in 1..Len(n.kids) :
             \/ n.kids[i].t \notin {"obj", "null"}
             \/ /\ n.kids[i].t = "obj"
                /\ Member(n.kids[i], "message") # <<>>
                /\ Member(n.kids[i], "message")[1].t \notin {"str", "null"}

ZeroOut == [Data |-> <<>>, Errors |-> <<>>, Extensions |-> <<>>]

\* json.NewDecoder(resp.Body).Decode(&out) on what is left of the body
\* stream: <<>> when the stream is at its end, else <<body>>.
DecodeEnvelope(im, stream) ==
    IF stream = <<>> THEN [err |-> <<"EOF">>, out |-> ZeroOut]
    ELSE IF stream[1].readErr THEN [err |-> <<"unexpected EOF">>, out |-> ZeroOut]
    ELSE IF stream[1].json = <<>>
         THEN [err |-> <<"invalid character '<' looking for beginning of value">>,
               out |-> ZeroOut]
    ELSE LET n == stream[1].json[1] IN
         IF n.t = "null" THEN [err |-> <<>>, out |-> ZeroOut]
         ELSE IF n.t # "obj"
              THEN [err |-> <<"json: cannot unmarshal " \o n.t \o " into Go value of type struct">>,
                    out |-> ZeroOut]
         ELSE LET d == Member(n, "data")
                  e == Member(n, "errors")
                  x == Member(n, "extensions")
                  out == [Data |-> IF d = <<>> THEN <<>>
                                   ELSE IF d[1].t = "null" /\ DataIsPointer(im) THEN <<>>
                                   ELSE d,
                          Errors |-> IF e # <<>> /\ e[1].t = "arr"
                                     THEN [i \in 1..Len(e[1].kids) |->
                                             DecodeErrorEntry(e[1].kids[i])]
                                     ELSE <<>>,
                          Extensions |-> IF HasExtensions(im) /\ x # <<>> /\ x[1].t # "null"
                                         THEN x ELSE <<>>]
              IN  IF e # <<>> /\ ErrorsIllTyped(e[1])
                  THEN [err |-> <<"json: cannot unmarshal into Go struct field .Errors">>,
                        out |-> out]
                  ELSE [err |-> <<>>, out |-> out]

(***************************************************************************)
(* Error values and their messages.                                        *)
(***************************************************************************)
\* fmt's %+v of an entry's Locations.
FormatLocations(locs) ==
    "[" \o JoinWith([i \in 1..Len(locs) |->
            "{Line:" \o locs[i].Line \o " Column:" \o locs[i].Column \o "}"], " ") \o "]"

\* errors.Error as it returns the first entry's message.
errorsErrorFirst(e) == e[1].Message

\* errors.Error as it writes every entry with its locations.
errorsErrorAll(e) ==
    Concat([i \in 1..Len(e) |->
        "Message: " \o e[i].Message \o ", Locations: " \o FormatLocations(e[i].Locations)])

errorsError(im, e) == IF im = "cli" THEN errorsErrorAll(e) ELSE errorsErrorFirst(e)

NoError == [kind |-> "nil", msg |-> "", errors |-> <<>>, ext |-> <<>>, status |-> "", body |-> ""]
Err(kind, msg) == [NoError EXCEPT !.kind = kind, !.msg = msg]

\* The error a call returns for a response whose status is not 200.
StatusError(im, resp) ==
    IF im = "custom"
    THEN Err("status", "unexpected status: " \o resp.status)
    ELSE IF im = "typed"
    THEN [Err("status", "non-200 OK status code: " \o ToString(resp.code) \o " body: "
                \o Quote(IF resp.body.readErr THEN "" ELSE RawOf(resp.body)))
            EXCEPT !.status = ToString(resp.code),
                   !.body = IF resp.body.readErr THEN "" ELSE RawOf(resp.body)]
    ELSE [Err("status", "non-200 OK status code: " \o resp.status \o " body: "
                \o Quote(IF resp.body.readErr THEN "" ELSE RawOf(resp.body)))
            EXCEPT !.status = resp.status,
                   !.body = IF resp.body.readErr THEN "" ELSE RawOf(resp.body)]

\* The error for a failed exchange or body read.
TransportError(im, cause) ==
    IF im = "options" THEN Err("transport", "request option error: " \o cause)
    ELSE Err("transport", cause)

\* The error for an envelope that does not decode, or data that does not bind.
BodyError(im, kind, cause, raw) ==
    IF im = "options"
    THEN [Err(kind, "could not parse the body: " \o cause \o ", body: " \o Quote(raw))
            EXCEPT !.body = raw]
    ELSE Err(kind, cause)

\* The error for a non-empty errors array.
GraphQLError(im, out) ==
    [Err("graphql", errorsError(im, out.Errors))
        EXCEPT !.errors = out.Errors,
               !.ext = IF HasExtensions(im) THEN out.Extensions ELSE <<>>]


(***************************************************************************)
(* Inputs of the model: destination shapes, variables, request options and *)
(* what the HTTP exchanger can answer.                                     *)
(***************************************************************************)
Impls == {"hasura", "cli", "custom", "typed", "options", "qstring"}
Synths == {"len", "nil"}
Threads == {1, 2}

StringT == NamedType("String", "String")
IDT == NamedType("ID", "Interface")
IntT == NamedType("Int", "Int32")

\* struct{ User struct{ Name String } }
UserQ == StructOf(<<Field("User", <<>>, StructOf(<<Field("Name", <<>>, StringT)>>))>>)

\* struct{ Node1 *struct{ID} `graphql:"node1: node(id: \"A\")"`
\*         Node2 *struct{ID} `graphql:"node2: node(id: \"NotExist\")"` }
NodeQ ==
    StructOf(<<Field("Node1", <<"node1: node(id: \"A\")">>, PtrTo(StructOf(<<Field("ID", <<>>, IDT)>>))),
               Field("Node2", <<"node2: node(id: \"NotExist\")">>, PtrTo(StructOf(<<Field("ID", <<>>, IDT)>>)))>>)

Shapes == {UserQ, NodeQ}

\* The values a caller may pass in: the zero value, or one already filled.
PriorValues(t) ==
    IF t = UserQ
    THEN {ZeroOf(t), GroupVal(<<GroupVal(<<ScalarVal("old")>>)>>)}
    ELSE {ZeroOf(t), GroupVal(<<NilVal, GroupVal(<<GroupVal(<<ScalarVal("old")>>)>>)>>)}

NilVars == [isNil |-> TRUE, m |-> <<>>]
EmptyVars == [isNil |-> FALSE, m |-> <<>>]
OneVar == [isNil |-> FALSE, m |-> [k \in {"a"} |-> [type |-> IntT, json |-> <<"1">>]]]
\* A value encoding/json cannot encode (a func, a channel).
BadVar == [isNil |-> FALSE,
           m |-> [k \in {"a"} |-> [type |-> NamedType("", "Func"), json |-> <<>>]]]

WideVariables == {NilVars, EmptyVars, OneVar, BadVar}
NarrowVariables == {NilVars, OneVar}

\* Request options: WithHeader-like setters, and ones that return an error.
Option(id, key, value, fails) == [id |-> id, key |-> key, value |-> value, fails |-> fails]
DefaultOptionPool == {Option("d1", "K", "default", FALSE), Option("dbad", "", "", TRUE)}
CallOptionPool == {Option("c1", "K", "call", FALSE), Option("cbad", "", "", TRUE)}

SeqsUpTo(S, n) == UNION {[1..k -> S] : k \in 0..n}

URLs == {"http://host/graphql", ":bad"}
\* http.NewRequest fails on a URL it cannot parse.
NewRequestFails(u) == u = ":bad"

ErrMessage(i) == "error " \o ToString(i)

\* Entry i of a server's errors array; odd entries carry path, type and
\* locations, even ones only a message.
ErrorEntry(i) ==
    IF i % 2 = 1
    THEN JObj(<<KV("message", JStr(ErrMessage(i))),
                KV("type", JStr("NOT_FOUND")),
                KV("path", JArr(<<JStr("node2")>>)),
                KV("locations", JArr(<<JObj(<<KV("line", JNum("10")), KV("column", JNum("4"))>>)>>))>>)
    ELSE JObj(<<KV("message", JStr(ErrMessage(i)))>>)

GoodData(t) ==
    IF t = UserQ
    THEN JObj(<<KV("user", JObj(<<KV("name", JStr("Gopher"))>>))>>)
    ELSE JObj(<<KV("node1", JObj(<<KV("id", JStr("X1"))>>)), KV("node2", JNull)>>)

\* A data object with a key that has no destination in either shape.
BadKeyData ==
    JObj(<<KV("user", JObj(<<KV("name", JStr("Gopher"))>>)), KV("nope", JStr("x"))>>)

DataKinds == {"absent", "null", "good", "badkey"}

\* The envelope with the given data member, n errors (-1: no errors key) and
\* an extensions member or none.
Envelope(t, dataKind, n, ext) ==
    JObj((IF dataKind = "absent" THEN <<>>
          ELSE <<KV("data", CASE dataKind = "null" -> JNull
                              [] dataKind = "good" -> GoodData(t)
                              [] OTHER -> BadKeyData)>>)
         \o (IF n < 0 THEN <<>> ELSE <<KV("errors", JArr([i \in 1..n |-> ErrorEntry(i)]))>>)
         \o (IF ext THEN <<KV("extensions", JObj(<<KV("code", JStr("E"))>>))>> ELSE <<>>))

Response(code, status, body) == [code |-> code, status |-> status, body |-> body]

OKResponses(t) ==
    {Response(200, "200 OK", JSONBody(Envelope(t, d, n, x))) :
        d \in DataKinds, n \in (-1)..MaxErrors, x \in BOOLEAN}
    \cup {Response(200, "200 OK", Body("<html>", <<>>)),
          Response(200, "200 OK", [JSONBody(Envelope(t, "good", -1, FALSE)) EXCEPT !.readErr = TRUE])}

FailResponses ==
    {Response(500, "500 Internal Server Error", Body("important message\n", <<>>)),
     Response(500, "500 Internal Server Error", [Body("important message\n", <<>>) EXCEPT !.readErr = TRUE]),
     Response(404, "404 Not Found", Body("", <<>>))}

WideResponses(t) == OKResponses(t) \cup FailResponses

NarrowResponses(t) ==
    {Response(200, "200 OK", JSONBody(Envelope(t, "good", n, FALSE))) : n \in {-1, 1}}
    \cup {Response(500, "500 Internal Server Error", Body("important message\n", <<>>))}

(***************************************************************************)
(* State.  impl, synth, url and requestOptions are fixed when the client   *)
(* is built; queryString is the one field the client's methods write.      *)
(* th[t] is the call thread t is in.  lastToggle names the toggle method   *)
(* that returned last; race records that two threads accessed queryString  *)
(* at once, one of them writing.  pure holds one call of a function of    *)
(* the synthesizer or the binder: its arguments and what it returned.      *)
(***************************************************************************)
NoRequest == [method |-> "", url |-> "", body |-> "", header |-> <<>>]

IdleThread ==
    [pc |-> "idle", tog |-> "", op |-> "", variables |-> NilVars, shape |-> UserQ,
     v0 |-> ZeroOf(UserQ), v |-> ZeroOf(UserQ), opts |-> <<>>, query |-> "",
     req |-> NoRequest, applied |-> <<>>, resp |-> <<>>, err |-> NoError, trace |-> <<>>,
     raw |-> FALSE, payload |-> <<>>, deferred |-> <<>>]

OffThread == [IdleThread EXCEPT !.pc = "off"]

\* No call of a synthesizer or binder function is being looked at.
NoCall == [op |-> "none"]

\* Whether the behaviour is one of concurrent callers; its inputs are drawn
\* from the narrow sets.
Concurrent == th[2].pc # "off"


(***************************************************************************)
(* Client.do, first half: build the operation text, encode the envelope,   *)
(* build the request, apply the request options; ends with the request     *)
(* handed to the HTTP exchanger or with an early return.                   *)
(***************************************************************************)
SetHeader(h, key, value) ==
    [k \in (DOMAIN h) \cup {key} |-> IF k = key THEN value ELSE h[k]]

PostHeader == SetHeader(<<>>, "Content-Type", "application/json")

RECURSIVE ApplyOptions(_, _, _, _)
\* `for _, opt := range allOpts`: options os[i..] applied in order to the
\* request header h; stops at the first option that returns an error.
ApplyOptions(os, i, h, applied) ==
    IF i > Len(os) THEN [header |-> h, applied |-> applied, failed |-> <<>>]
    ELSE IF os[i].fails
         THEN [header |-> h, applied |-> Append(applied, os[i].id), failed |-> <<os[i].id>>]
         ELSE ApplyOptions(os, i + 1, SetHeader(h, os[i].key, os[i].value),
                           Append(applied, os[i].id))

\* The options as they would be ordered with the call's first.
AllOptsCallFirst(defaults, opts) == opts \o defaults

\* allOpts: the client's request options, then the call's.
AllOpts(defaults, opts) == defaults \o opts

\* GetWithQueryString's URL.
QueryStringURL(u, q, variables) ==
    u \o "?query=" \o QueryEscape(q) \o "&variables=" \o QueryEscape(MarshalVariables(variables))

\* queryType: what EnableQueryString and DisableQueryString store, and what
\* NewClient starts with.
EnabledValue == "enabled"
DisabledValue == "disabled"
NewClientQueryString == DisabledValue

\* The mode as it would apply to mutations too.
UsesQueryStringAnyOp(im, op, qs) == im = "qstring" /\ qs = EnabledValue

\* Whether the operation goes out as a GET with a query string; qs is the
\* value read from c.queryString.
UsesQueryString(im, op, qs) == im = "qstring" /\ op = "query" /\ qs = EnabledValue

\* A defer statement that is never run.
DeferDropped(c, call) == c

\* `defer call`: the call runs when do returns, the last deferred first.
Defer(c, call) == [c EXCEPT !.deferred = <<call>> \o c.deferred]

\* do returns err after steps; the deferred calls run.
Returned(c, err, steps) ==
    [c EXCEPT !.pc = "done", !.err = err, !.trace = c.trace \o steps \o c.deferred,
              !.deferred = <<>>]

\* The call c after do has run up to the exchange.
doRequest(im, sy, u, defaults, qs, c) ==
    LET q == IF c.op = "query" THEN constructQuery(sy, c.shape, c.variables)
             ELSE constructMutation(sy, c.shape, c.variables)
        enc == EncodeRequest(q, c.variables)
        c1 == [c EXCEPT !.query = q]
    IN  IF enc = <<>>
        THEN Returned(c1, Err("encode", "json: unsupported type: func()"), <<"construct", "encode">>)
        ELSE IF im = "options"
        THEN IF NewRequestFails(u)
             THEN Returned(c1, Err("request", "request error: parse " \o Quote(u)),
                           <<"construct", "encode", "newrequest">>)
             ELSE LET a == ApplyOptions(AllOpts(defaults, c.opts), 1, PostHeader, <<>>)
                      c2 == [c1 EXCEPT !.applied = a.applied,
                                       !.req = [method |-> "POST", url |-> u,
                                                body |-> enc[1], header |-> a.header]]
                  IN  IF a.failed # <<>>
                      THEN Returned(c2, Err("option", "request option error: " \o a.failed[1]),
                                    <<"construct", "encode", "newrequest", "options">>)
                      ELSE [c2 EXCEPT !.pc = "inflight",
                                      !.trace = <<"construct", "encode", "newrequest", "options">>]
        ELSE IF NewRequestFails(u)
        THEN Returned(c1, Err("transport", "parse " \o Quote(u)), <<"construct", "encode">>)
        ELSE IF UsesQueryString(im, c.op, qs)
        THEN [c1 EXCEPT !.pc = "inflight", !.trace = <<"construct", "encode">>,
                        !.req = [method |-> "GET",
                                 url |-> QueryStringURL(u, q, c.variables),
                                 body |-> "", header |-> <<>>]]
        ELSE [c1 EXCEPT !.pc = "inflight", !.trace = <<"construct", "encode">>,
                        !.req = [method |-> "POST", url |-> u, body |-> enc[1],
                                 header |-> PostHeader]]

(***************************************************************************)
(* Client.do, second half: the response is checked, decoded and bound.     *)
(***************************************************************************)
\* Whether do reads the whole body before it looks at the status.
ReadsBodyFirst(im) == im = "options"

\* What json.NewDecoder(resp.Body) finds in the body stream.
StreamForDecode(im, resp) == IF ReadsBodyFirst(im) THEN <<>> ELSE <<resp.body>>

\* The binder as it would run only for an envelope without errors.
BinderRunsWithoutErrors(im, out) == out.Data # <<>> /\ Len(out.Errors) = 0

\* Whether the binder is invoked for the decoded `out`.
BinderRuns(im, out) == IF DataIsPointer(im) THEN out.Data # <<>> ELSE TRUE

\* The call c after the exchanger answered resp.
doResponse(im, c, resp) ==
    LET c1 == Defer([c EXCEPT !.resp = <<resp>>, !.trace = c.trace \o <<"exchange">>], "close")
        raw == RawOf(resp.body)
        dec == DecodeEnvelope(im, StreamForDecode(im, resp))
        b == UnmarshalGraphQL(dec.out.Data, c.shape, c.v)
        pre == IF ReadsBodyFirst(im) THEN <<"readall">> ELSE <<>>
    IN  IF ReadsBodyFirst(im) /\ resp.body.readErr
        THEN Returned(c1, TransportError(im, "unexpected EOF"), <<"readall">>)
        ELSE IF resp.code # 200
        THEN Returned(c1, StatusError(im, resp),
                      IF im \in {"custom", "options"} THEN pre ELSE <<"readall">>)
        ELSE IF dec.err # <<>>
        THEN Returned(c1, BodyError(im, "decode", dec.err[1], raw), pre \o <<"decode">>)
        ELSE IF BinderRuns(im, dec.out) /\ b.err # <<>>
        THEN Returned([c1 EXCEPT !.v = b.val], BodyError(im, "bind", b.err[1], raw),
                      pre \o <<"decode", "bind">>)
        ELSE LET c2 == IF BinderRuns(im, dec.out) THEN [c1 EXCEPT !.v = b.val] ELSE c1
                 steps == pre \o <<"decode">>
                          \o (IF BinderRuns(im, dec.out) THEN <<"bind">> ELSE <<>>)
             IN  IF Len(dec.out.Errors) > 0
                 THEN Returned(c2, GraphQLError(im, dec.out), steps)
                 ELSE Returned(c2, NoError, steps)

\* doRaw handing out a payload on every return, failures included.
RawMessageAlways(data) == <<IF data = <<>> THEN "null" ELSE Render(data[1])>>

\* out.Data as doRaw returns it: the bytes of the data member, not decoded;
\* <<>> is the nil *json.RawMessage.
RawMessage(data) == IF data = <<>> THEN <<>> ELSE <<Render(data[1])>>

\* The raw call c after the exchanger answered resp: Client.doRaw from the
\* status check on.  v is not touched.
doRawResponse(im, c, resp) ==
    LET c1 == Defer([c EXCEPT !.resp = <<resp>>, !.trace = c.trace \o <<"exchange">>], "close")
        dec == DecodeEnvelope(im, <<resp.body>>)
        c2 == [c1 EXCEPT !.payload = RawMessage(dec.out.Data)]
    IN  IF resp.code # 200
        THEN Returned(c1, StatusError(im, resp), <<"readall">>)
        ELSE IF dec.err # <<>>
        THEN Returned(c1, BodyError(im, "decode", dec.err[1], RawOf(resp.body)),
                      <<"decode">>)
        ELSE IF Len(dec.out.Errors) > 0
        THEN Returned(c2, GraphQLError(im, dec.out), <<"decode">>)
        ELSE Returned(c2, NoError, <<"decode">>)

\* A failed exchange as it would be taken for an empty success.
doTransportFailureSwallowed(im, c) == Returned(c, NoError, <<"exchange">>)

\* The call c after the exchange failed (no response was obtained).
doTransportFailure(im, c) ==
    Returned(c, TransportError(im, "Post: connection refused"), <<"exchange">>)

(***************************************************************************)
(* Actions.                                                                *)
(***************************************************************************)
Variables == IF Concurrent THEN NarrowVariables ELSE WideVariables
DestShapes == IF Concurrent THEN {UserQ} ELSE Shapes
Priors(t) == IF Concurrent THEN {ZeroOf(t)} ELSE PriorValues(t)
CallOpts == IF impl = "options" THEN SeqsUpTo(CallOptionPool, MaxCallOpts) ELSE {<<>>}
Responses(t) == IF Concurrent THEN NarrowResponses(t) ELSE WideResponses(t)

OthersToggling(t) == \E o \in Threads \ {t} : th[o].pc = "toggling"

\* The values a read of c.queryString by thread t can return: the stored
\* one, or either one when another thread is writing it.
ReadQueryString(t) ==
    IF OthersToggling(t) THEN {DisabledValue, EnabledValue} ELSE {queryString}

\* Thread t enters do with operation op.
Start(t, op) ==
    /\ th[t].pc = "idle"
    /\ \E variables \in Variables, shape \in DestShapes, opts \in CallOpts :
         \E v0 \in Priors(shape), qs \in ReadQueryString(t) :
            th' = [th EXCEPT ![t] =
                     doRequest(impl, synth, url, requestOptions, qs,
                        [IdleThread EXCEPT !.op = op, !.variables = variables,
                                           !.shape = shape, !.v0 = v0, !.v = v0,
                                           !.opts = opts])]
    /\ race' = (race \/ (impl = "qstring" /\ OthersToggling(t)))
    /\ UNCHANGED <<pure, impl, synth, url, requestOptions, queryString, lastToggle>>

Query(t) == Start(t, "query")

\* Thread t enters doRaw with operation op (the client of graphql.go).
StartRaw(t, op) ==
    /\ impl = "hasura"
    /\ th[t].pc = "idle"
    /\ \E variables \in Variables, shape \in DestShapes :
         \E v0 \in Priors(shape) :
            th' = [th EXCEPT ![t] =
                     doRequest(impl, synth, url, requestOptions, queryString,
                        [IdleThread EXCEPT !.op = op, !.variables = variables,
                                           !.shape = shape, !.v0 = v0, !.v = v0,
                                           !.raw = TRUE])]
    /\ UNCHANGED <<pure, impl, synth, url, requestOptions, queryString, lastToggle, race>>

QueryRaw(t) == StartRaw(t, "query")

MutateRaw(t) == StartRaw(t, "mutation")

Mutate(t) == Start(t, "mutation")

\* The exchanger fails: no response.
RoundTripFails(t) ==
    /\ th[t].pc = "inflight"
    /\ th' = [th EXCEPT ![t] = doTransportFailure(impl, th[t])]
    /\ UNCHANGED <<pure, impl, synth, url, requestOptions, queryString, lastToggle, race>>

\* The exchanger answers, and do runs to its return.
Respond(t) ==
    /\ th[t].pc = "inflight"
    /\ \E resp \in Responses(th[t].shape) :
          th' = [th EXCEPT ![t] = IF th[t].raw THEN doRawResponse(impl, th[t], resp)
                                   ELSE doResponse(impl, th[t], resp)]
    /\ UNCHANGED <<pure, impl, synth, url, requestOptions, queryString, lastToggle, race>>

\* The caller takes the result; the thread is free for its next call.
Return(t) ==
    /\ th[t].pc = "done"
    /\ th' = [th EXCEPT ![t] = IdleThread]
    /\ UNCHANGED <<pure, impl, synth, url, requestOptions, queryString, lastToggle, race>>

\* Thread t enters EnableQueryString / DisableQueryString: its store to
\* c.queryString is under way until StoreQueryString.
Toggle(t, value) ==
    /\ impl = "qstring"
    /\ th[t].pc = "idle"
    /\ th' = [th EXCEPT ![t] = [IdleThread EXCEPT !.pc = "toggling", !.tog = value]]
    /\ race' = (race \/ OthersToggling(t))
    /\ UNCHANGED <<pure, impl, synth, url, requestOptions, queryString, lastToggle>>

EnableQueryString(t) == Toggle(t, EnabledValue)

DisableQueryString(t) == Toggle(t, DisabledValue)

\* `c.queryString = ...; return c`
StoreQueryString(t) ==
    /\ th[t].pc = "toggling"
    /\ queryString' = th[t].tog
    /\ lastToggle' = (IF th[t].tog = EnabledValue THEN "EnableQueryString"
                                                ELSE "DisableQueryString")
    /\ th' = [th EXCEPT ![t] = IdleThread]
    /\ UNCHANGED <<pure, impl, synth, url, requestOptions, race>>

Init ==
    /\ impl \in Impls
    /\ synth \in Synths
    /\ url \in URLs
    /\ requestOptions \in (IF impl = "options"
                           THEN SeqsUpTo(DefaultOptionPool, MaxDefaultOpts) ELSE {<<>>})
    /\ queryString = NewClientQueryString
    /\ lastToggle = "none"
    /\ race = FALSE
    /\ th = [t \in Threads |-> IF t = 1 THEN IdleThread ELSE OffThread]
    /\ pure = NoCall

\* Two goroutines share one client.
InitConcurrent ==
    /\ impl \in {"qstring", "options"}
    /\ synth = "len"
    /\ url = "http://host/graphql"
    /\ requestOptions \in (IF impl = "options"
                           THEN SeqsUpTo(DefaultOptionPool, MaxDefaultOpts) ELSE {<<>>})
    /\ queryString = NewClientQueryString
    /\ lastToggle = "none"
    /\ race = FALSE
    /\ th = [t \in Threads |-> IdleThread]
    /\ pure = NoCall

Next ==
    \E t \in Threads :
        \/ Query(t)
        \/ Mutate(t)
        \/ RoundTripFails(t)
        \/ Respond(t)
        \/ Return(t)
        \/ EnableQueryString(t)
        \/ DisableQueryString(t)
        \/ StoreQueryString(t)

Spec == Init /\ [][Next]_vars

SpecConcurrent == InitConcurrent /\ [][Next]_vars

\* The client of graphql.go, called through its raw variants.
InitRaw ==
    /\ impl = "hasura"
    /\ synth \in Synths
    /\ url \in URLs
    /\ requestOptions = <<>>
    /\ queryString = NewClientQueryString
    /\ lastToggle = "none"
    /\ race = FALSE
    /\ th = [t \in Threads |-> IF t = 1 THEN IdleThread ELSE OffThread]
    /\ pure = NoCall

NextRaw ==
    \E t \in Threads :
        \/ QueryRaw(t)
        \/ MutateRaw(t)
        \/ RoundTripFails(t)
        \/ Respond(t)
        \/ Return(t)

SpecRaw == InitRaw /\ [][NextRaw]_vars


(***************************************************************************)
(* The functions of the synthesizer, called on their own.  Inputs: the     *)
(* types a variable can have, variables maps with the order `range` yields *)
(* their keys in, and destination types with values of each.               *)
(***************************************************************************)
\* The built-in string.
GoString == NamedType("string", "String")
\* struct{}: a type without a name.
AnonStruct == StructOf(<<>>)
\* interface{}
IfaceT == NamedType("", "Interface")
\* map[string]interface{}
MapT == NamedType("", "Map")

BaseArgTypes == {IntT, GoString, AnonStruct}

RECURSIVE ArgTypes(_)
\* The types built from the base types by at most d pointers, slices and arrays.
ArgTypes(d) ==
    IF d = 0 THEN BaseArgTypes
    ELSE LET sub == ArgTypes(d - 1)
         IN  BaseArgTypes \cup {PtrTo(t) : t \in sub} \cup {SliceOf(t) : t \in sub}
                          \cup {ArrayOf(t, 2) : t \in sub}

KeyPool == {SubSeq(LowerLetters, i, i) : i \in 1..MaxKeys}

Variable(t) == [type |-> t, json |-> <<"1">>]

\* The variables maps with keys of the pool and values of a few types.
ArgVariables ==
    UNION {[ks -> {Variable(IntT), Variable(PtrTo(IntT)), Variable(SliceOf(GoString))}] :
              ks \in (SUBSET KeyPool) \ {{}}}

\* The orders in which the keys S can come out of a map.
Perms(S) ==
    {q \in [1..Cardinality(S) -> S] : \A i, j \in 1..Cardinality(S) : q[i] = q[j] => i = j}

\* struct{Name String; Height Int}
Inner == StructOf(<<Field("Name", <<>>, StringT), Field("Height", <<>>, IntT)>>)
\* type DateTime struct{ time.Time }, with an UnmarshalJSON method.
DateTime ==
    [StructOf(<<Embedded("Time", StructOf(<<Field("wall", <<>>, IntT)>>))>>)
        EXCEPT !.name = "DateTime", !.unmarshaler = TRUE]
\* type Labels []struct{Name String; Height Int}, with an UnmarshalJSON method.
Labels == [SliceOf(Inner) EXCEPT !.name = "Labels", !.unmarshaler = TRUE]
\* type Actor struct{ID ID; Login String}
Actor ==
    [StructOf(<<Field("ID", <<>>, IDT), Field("Login", <<>>, StringT)>>) EXCEPT !.name = "Actor"]
\* [][2]interface{}, [][3]interface{}
PairsT == SliceOf(ArrayOf(IfaceT, 2))
TriplesT == SliceOf(ArrayOf(IfaceT, 3))

FieldPool ==
    {Field("Me", <<>>, Inner),
     Field("ID", <<>>, IDT),
     Field("CreatedAt", <<>>, DateTime),
     Field("UpdatedAt", <<>>, SliceOf(PtrTo(DateTime))),
     Field("Labels", <<>>, Labels),
     Field("Viewer", <<"viewer: user(login: \"x\")">>, PtrTo(Inner)),
     Field("Nodes", <<>>, SliceOf(Inner)),
     Embedded("Actor", Actor),
     Embedded("Actor", PtrTo(Actor)),
     Field("Attrs", <<>>, PairsT),
     Field("Node", <<>>, PtrTo(StructOf(<<Field("Attrs", <<>>, PairsT)>>))),
     Field("Bad", <<>>, TriplesT),
     Field("Extra", <<>>, MapT)}

\* The destination types: structs of up to MaxFields fields of the pool.
SelTypes == {StructOf(fs) : fs \in SeqsUpTo(FieldPool, MaxFields) \ {<<>>}}

\* The registry of the go.mod build: the struct scalars.
Scalars == {DateTime}

Flavours == {"zero", "full", "odd"}

\* A pair of an ordered map.
Pair(key, val) == HGroup(<<key, val>>)

RECURSIVE ValueOf(_, _)
\* A value of type t: the zero value, a filled one, or (odd) a filled one
\* whose ordered maps hold a nil value.
ValueOf(t, fl) ==
    CASE t.kind = "Ptr" ->
            IF fl = "zero" THEN HNil ELSE HGroup(<<ValueOf(t.elem[1], fl)>>)
      [] t.kind = "Struct" ->
            HGroup([i \in 1..Len(t.fields) |-> ValueOf(t.fields[i].type, fl)])
      [] t.kind = "Slice" /\ t.elem[1].kind = "Array" ->
            IF fl = "zero" THEN HNil
            ELSE IF fl = "odd"
            THEN HGroup(<<Pair(HIface(GoString, HString("name")), HNil)>>)
            ELSE HGroup(<<Pair(HIface(GoString, HString("name")), HIface(GoString, HString(""))),
                          Pair(HIface(GoString, HString("friends")),
                               HIface(SliceOf(Inner), ValueOf(SliceOf(Inner), "full")))>>)
      [] t.kind = "Slice" ->
            IF fl = "zero" THEN HNil ELSE HGroup(<<ValueOf(t.elem[1], fl)>>)
      [] t.kind \in {"Map", "Interface"} -> HNil
      [] OTHER -> HString(IF fl = "zero" THEN "" ELSE fl)

SynthBuilds == {"typed", "valued", "registry"}

\* query(v) as the build has it.
Selection(build, t, v) ==
    CASE build = "typed" -> Wrote(query(t))
      [] build = "registry" -> Wrote(Querify(Scalars, t))
      [] OTHER -> queryV(t, v)

\* constructQuery / constructMutation is called.
Construct ==
    /\ pure = NoCall
    /\ \E sy \in Synths, kind \in {"query", "mutation"}, t \in Shapes,
          variables \in {NilVars, EmptyVars} \cup
                         {[isNil |-> FALSE, m |-> [k \in {"a"} |-> Variable(ty)]] :
                              ty \in ArgTypes(MaxTypeDepth)} :
          pure' = [op |-> "construct", synth |-> sy, kind |-> kind, t |-> t,
                   variables |-> variables,
                   out |-> IF kind = "query" THEN constructQuery(sy, t, variables)
                           ELSE constructMutation(sy, t, variables)]
    /\ UNCHANGED <<impl, synth, url, requestOptions, queryString, lastToggle, race, th>>

\* queryArguments is called; ranged is the order its `range` yields.
Arguments ==
    /\ pure = NoCall
    /\ \E variables \in ArgVariables :
          \E ranged \in Perms(DOMAIN variables) :
             pure' = [op |-> "arguments",
                      variables |-> [isNil |-> FALSE, m |-> variables],
                      ranged |-> ranged,
                      out |-> queryArgumentsRanged([isNil |-> FALSE, m |-> variables], ranged)]
    /\ UNCHANGED <<impl, synth, url, requestOptions, queryString, lastToggle, race, th>>

\* The type of one variable is printed, by writeArgumentType or by the
\* older queryArguments.
PrintType ==
    /\ pure = NoCall
    /\ \E printer \in {"recursive", "flat"}, t \in ArgTypes(MaxTypeDepth) :
          pure' = [op |-> "argtype", printer |-> printer, t |-> t,
                   out |-> IF printer = "recursive" THEN writeArgumentType(t, TRUE)
                           ELSE argumentTypeFlat(t)]
    /\ UNCHANGED <<impl, synth, url, requestOptions, queryString, lastToggle, race, th>>

\* query(v) is called twice on values of one type.
Select ==
    /\ pure = NoCall
    /\ \E build \in SynthBuilds, t \in SelTypes :
          \E f1, f2 \in (IF build = "valued" THEN Flavours ELSE {"zero"}) :
             pure' = [op |-> "select", build |-> build, t |-> t,
                      v |-> ValueOf(t, f1), w |-> ValueOf(t, f2),
                      out |-> Selection(build, t, ValueOf(t, f1)),
                      out2 |-> Selection(build, t, ValueOf(t, f2))]
    /\ UNCHANGED <<impl, synth, url, requestOptions, queryString, lastToggle, race, th>>

\* type query struct{ Foo graphql.String }
FooQ == StructOf(<<Field("Foo", <<>>, StringT)>>)

\* Root values of the binder's input, and what may follow them.
Roots == {JObj(<<KV("foo", JStr("bar"))>>), JObj(<<>>), JNull,
          JObj(<<KV("foo", JStr("bar")), KV("qux", JNum("1"))>>)}
Followers ==
    LET more == {"", Render(JObj(<<KV("foo", JStr("baz"))>>)), "[1]", "7", "null", "true x"}
    IN  {lead \o m \o trail : lead \in {"", " ", "\n", "\t \r\n"}, m \in more, trail \in {"", " ", "\n"}}

\* The binder is called on a root value followed by more bytes.
Unmarshal ==
    /\ pure = NoCall
    /\ \E root \in Roots, rest \in Followers, prior \in {ZeroOf(FooQ), GroupVal(<<ScalarVal("old")>>)} :
          pure' = [op |-> "unmarshal", root |-> root, rest |-> rest,
                   data |-> Render(root) \o rest, prior |-> prior,
                   out |-> UnmarshalFollowed(root, rest, FooQ, prior)]
    /\ UNCHANGED <<impl, synth, url, requestOptions, queryString, lastToggle, race, th>>

(***************************************************************************)
(* Destinations and inputs of the binder's tests.                          *)
(***************************************************************************)
\* type query struct{ foo graphql.String }
UnexportedQ == StructOf(<<Field("foo", <<>>, StringT)>>)
\* struct{ Foo graphql.String; bar graphql.String }
HalfExportedQ == StructOf(<<Field("Foo", <<>>, StringT), Field("bar", <<>>, StringT)>>)
\* type query struct{ Foo graphql.String `json:"baz"` }
JSONTagQ == StructOf(<<JSONField("Foo", "baz", StringT)>>)
\* type query struct{ Foo graphql.String `graphql:"baz"` }
GraphQLTagQ == StructOf(<<Field("Foo", <<"baz">>, StringT)>>)
\* type query struct{ Foo, Bar, Baz []graphql.String }
ArrayQ ==
    StructOf(<<Field("Foo", <<>>, SliceOf(StringT)), Field("Bar", <<>>, SliceOf(StringT)),
               Field("Baz", <<>>, SliceOf(StringT))>>)
\* type query struct{ Foo, Bar *graphql.String }
PointerQ ==
    StructOf(<<Field("Foo", <<>>, PtrTo(StringT)), Field("Bar", <<>>, PtrTo(StringT))>>)
\* type query struct{ Foo []*struct{ Name graphql.String } }
ObjectPointerArrayQ ==
    StructOf(<<Field("Foo", <<>>, SliceOf(PtrTo(StructOf(<<Field("Name", <<>>, StringT)>>))))>>)
\* type actor struct{ User struct{ DatabaseID uint64 } `graphql:"... on User"`; Login string }
ActorWithUser ==
    StructOf(<<Field("User", <<"... on User">>,
                     StructOf(<<Field("DatabaseID", <<>>, IntT)>>)),
               Field("Login", <<>>, StringT)>>)
\* type query struct{ Author actor; Editor *actor }
AuthorEditorQ ==
    StructOf(<<Field("Author", <<>>, ActorWithUser), Field("Editor", <<>>, PtrTo(ActorWithUser))>>)
\* type closedEvent struct{ Actor struct{ Login graphql.String }; CreatedAt time.Time }
EventT ==
    StructOf(<<Field("Actor", <<>>, StructOf(<<Field("Login", <<>>, StringT)>>)),
               Field("CreatedAt", <<>>, StringT)>>)
\* type issueTimelineItem struct{ ClosedEvent `... on ClosedEvent`; ReopenedEvent `... on ReopenedEvent` }
UnionQ ==
    StructOf(<<Field("ClosedEvent", <<"... on ClosedEvent">>, EventT),
               Field("ReopenedEvent", <<"... on ReopenedEvent">>, EventT)>>)
\* ... with Typename string `graphql:"__typename"`
UnionTypenameQ == StructOf(UnionQ.fields \o <<Field("Typename", <<"__typename">>, StringT)>>)
\* type events struct{ Foo []issueTimelineItem `graphql:"foo"` }, Typename *string
UnionArrayQ ==
    StructOf(<<Field("Foo", <<"foo">>,
                     SliceOf(StructOf(UnionQ.fields
                                \o <<Field("Typename", <<"__typename">>, PtrTo(StringT))>>)))>>)
\* The destination of TestUnmarshal_arrayInsideInlineFragment.
SearchQ ==
    StructOf(<<Field("Search", <<"search(type: ISSUE, first: 1, query: \"type:pr repo:owner/name\")">>,
        StructOf(<<Field("Nodes", <<>>, SliceOf(StructOf(<<
            Field("PullRequest", <<"... on PullRequest">>, StructOf(<<
                Field("Commits", <<"commits(last: 1)">>, StructOf(<<
                    Field("Nodes", <<>>,
                          SliceOf(StructOf(<<Field("URL", <<"url">>, StringT)>>)))>>))>>))>>)))>>))>>)

Obj1(k, v) == JObj(<<KV(k, v)>>)
\* The shared keys of an event, and the __typename key.
EventKeys(login) ==
    <<KV("createdAt", JStr("2017-06-29T04:12:01Z")), KV("actor", Obj1("login", JStr(login)))>>
TypenameKey(name) == <<KV("__typename", JStr(name))>>

\* A value of type t filled with old contents everywhere.
RECURSIVE FilledOf(_)
FilledOf(t) ==
    CASE t.kind = "Ptr" -> GroupVal(<<FilledOf(t.elem[1])>>)
      [] t.kind = "Slice" -> GroupVal(<<FilledOf(t.elem[1]), FilledOf(t.elem[1])>>)
      [] t.kind = "Struct" -> GroupVal([i \in 1..Len(t.fields) |-> FilledOf(t.fields[i].type)])
      [] OTHER -> ScalarVal("initial")

BindCase(t, root) == [t |-> t, root |-> root]

\* The calls of the binder: destination type and JSON value.
BindCases ==
    {BindCase(UnexportedQ, Obj1("foo", JStr("bar"))),
     BindCase(HalfExportedQ, JObj(<<KV("foo", JStr("x")), KV("bar", JStr("y"))>>)),
     BindCase(HalfExportedQ, Obj1("foo", JStr("x"))),
     BindCase(FooQ, Obj1("qux", JStr("bar"))),
     BindCase(UnionQ, Obj1("actor", Obj1("nope", JStr("x")))),
     BindCase(JSONTagQ, Obj1("foo", JStr("bar"))),
     BindCase(JSONTagQ, Obj1("baz", JStr("bar"))),
     BindCase(JSONTagQ, Obj1("FOO", JStr("bar"))),
     BindCase(GraphQLTagQ, Obj1("baz", JStr("bar"))),
     BindCase(GraphQLTagQ, Obj1("foo", JStr("bar"))),
     BindCase(NodeQ, JObj(<<KV("node1", Obj1("id", JStr("A"))), KV("node2", JNull)>>)),
     BindCase(NodeQ, Obj1("node", Obj1("id", JStr("A")))),
     BindCase(SearchQ, Obj1("search", Obj1("nodes", JArr(<<Obj1("commits", Obj1("nodes",
                  JArr(<<Obj1("url", JStr("https://example.org/commit/49e1"))>>)))>>)))),
     BindCase(SliceOf(StringT), JArr(<<JStr("bar"), JStr("baz")>>)),
     BindCase(SliceOf(StringT), JArr(<<>>)),
     BindCase(SliceOf(StringT), JNull),
     BindCase(ArrayQ, JObj(<<KV("foo", JArr(<<JStr("bar"), JStr("baz")>>)),
                             KV("bar", JArr(<<>>)), KV("baz", JNull)>>)),
     BindCase(PointerQ, JObj(<<KV("foo", JStr("foo")), KV("bar", JNull)>>)),
     BindCase(PointerQ, JObj(<<KV("bar", JStr("bar")), KV("foo", JNull)>>)),
     BindCase(ObjectPointerArrayQ,
              Obj1("foo", JArr(<<Obj1("name", JStr("bar")), JNull, Obj1("name", JStr("baz"))>>))),
     BindCase(ObjectPointerArrayQ, Obj1("foo", JArr(<<JNull, Obj1("name", JStr("baz"))>>))),
     BindCase(AuthorEditorQ,
              JObj(<<KV("author", JObj(<<KV("databaseId", JNum("1")), KV("login", JStr("test1"))>>)),
                     KV("editor", JObj(<<KV("databaseId", JNum("2")), KV("login", JStr("test2"))>>))>>)),
     BindCase(AuthorEditorQ,
              JObj(<<KV("author", JObj(<<KV("databaseId", JNum("1")), KV("login", JStr("test1"))>>)),
                     KV("editor", JNull)>>)),
     BindCase(UnionQ, JObj(EventKeys("shurcooL-test"))),
     BindCase(UnionArrayQ, Obj1("foo", JArr(<<
                  JObj(EventKeys("shurcooL-test") \o TypenameKey("ClosedEvent")),
                  JObj(EventKeys("shurcooL-test2") \o TypenameKey("ReopenedEvent"))>>)))}
    \cup {BindCase(UnionTypenameQ, JObj(keys)) :
            keys \in {EventKeys("shurcooL-test") \o TypenameKey(n) : n \in {"ClosedEvent", "ReopenedEvent"}}
                \cup {TypenameKey(n) \o EventKeys("shurcooL-test") : n \in {"ClosedEvent", "ReopenedEvent"}}
                \cup {EventKeys("shurcooL-test")}}

\* The binder is called on a JSON value and a destination, zero or filled.
Decode ==
    /\ pure = NoCall
    /\ \E b \in Binders, c \in BindCases :
          \E prior \in {ZeroOf(c.t), FilledOf(c.t)} :
             pure' = [op |-> "decode", binder |-> b, t |-> c.t, root |-> c.root,
                      prior |-> prior, out |-> BindBy(b, c.t, prior, c.root)]
    /\ UNCHANGED <<impl, synth, url, requestOptions, queryString, lastToggle, race, th>>

\* struct{}: a record without fields.
EmptyRecord == StructOf(<<>>)

\* Fields of every sort a record can mix: untagged, tagged, a scalar, a
\* nested record, an embedded record, and records without fields.
MixedPool ==
    {Field("ID", <<>>, IDT),
     Field("Viewer", <<"viewer: user(login: \"x\")">>, PtrTo(Inner)),
     Field("CreatedAt", <<>>, DateTime),
     Field("Me", <<>>, Inner),
     Embedded("Actor", Actor),
     Field("Nothing", <<>>, EmptyRecord),
     Embedded("Nothing", EmptyRecord)}

\* The records of up to MaxFields such fields, the empty one included.
MixedTypes == {StructOf(fs) : fs \in SeqsUpTo(MixedPool, MaxFields)}

\* query(v) is called on the zero value of a mixed record.
SelectMixed ==
    /\ pure = NoCall
    /\ \E build \in SynthBuilds, t \in MixedTypes :
          pure' = [op |-> "mixed", build |-> build, t |-> t,
                   out |-> Selection(build, t, ValueOf(t, "zero"))]
    /\ UNCHANGED <<impl, synth, url, requestOptions, queryString, lastToggle, race, th>>

\* The most words of a name.
MaxWords == 3

\* Words in the spellings the three conventions give them.
WordPool ==
    {"client", "Client", "CLIENT", "Mutation", "MUTATION", "Id", "ID", "id",
     "URL", "Url", "Set", "From", "UI", "IP"}

\* Names in lowerCamelCase and in SCREAMING_SNAKE_CASE.
LowerCamelNames == {"clientMutationId", "databaseId", "url", "createdAt", "setUrl"}
ScreamingSnakeNames == {"CLIENT_MUTATION_ID", "DATABASE_ID", "URL", "CREATED_AT", "SET_URL"}

\* The word lists that are made into MixedCaps names.
WordLists ==
    UNION {[1..k -> WordPool] : k \in 1..MaxWords}
        \cup {ParseLowerCamelCase(name) : name \in LowerCamelNames}
        \cup {ParseScreamingSnakeCase(name) : name \in ScreamingSnakeNames}

\* A word list is emitted as MixedCaps and the name is parsed back.
RoundTrip ==
    /\ pure = NoCall
    /\ \E n \in WordLists :
          pure' = [op |-> "roundtrip", n |-> n, name |-> ToMixedCaps(n),
                   out |-> ParseMixedCaps(ToMixedCaps(n)),
                   lower |-> ToLowerCamelCase(n)]
    /\ UNCHANGED <<impl, synth, url, requestOptions, queryString, lastToggle, race, th>>

\* The result is dropped; the next call can be looked at.
Forget ==
    /\ pure # NoCall
    /\ pure' = NoCall
    /\ UNCHANGED <<impl, synth, url, requestOptions, queryString, lastToggle, race, th>>

InitPure ==
    /\ impl = "hasura"
    /\ synth = "len"
    /\ url = "http://host/graphql"
    /\ requestOptions = <<>>
    /\ queryString = NewClientQueryString
    /\ lastToggle = "none"
    /\ race = FALSE
    /\ th = [t \in Threads |-> OffThread]
    /\ pure = NoCall

NextPure ==
    \/ Construct
    \/ Arguments
    \/ PrintType
    \/ Select
    \/ Unmarshal
    \/ Decode
    \/ RoundTrip
    \/ SelectMixed
    \/ Forget

SpecPure == InitPure /\ [][NextPure]_vars


(***************************************************************************)
(* What a finished call shows: the response it was answered with and the   *)
(* steps it took.                                                          *)
(***************************************************************************)
Done(t) == th[t].pc = "done"

Took(t, step) == \E i \in 1..Len(th[t].trace) : th[t].trace[i] = step

\* The call of thread t was answered 200 with a body that is a JSON object.
OKEnvelope(t) ==
    /\ Done(t)
    /\ th[t].resp # <<>>
    /\ th[t].resp[1].code = 200
    /\ ~th[t].resp[1].body.readErr
    /\ th[t].resp[1].body.json # <<>>
    /\ th[t].resp[1].body.json[1].t = "obj"

\* The call of thread t was answered with a status other than 200, and the
\* body could be read.
Not200(t) ==
    /\ Done(t)
    /\ th[t].resp # <<>>
    /\ th[t].resp[1].code # 200
    /\ ~th[t].resp[1].body.readErr

DataSent(t) == Member(th[t].resp[1].body.json[1], "data")

ErrorsSent(t) ==
    LET e == Member(th[t].resp[1].body.json[1], "errors")
    IN  IF e = <<>> \/ e[1].t # "arr" THEN <<>> ELSE e[1].kids

\* V once GoodData(t) is bound into it: User.Name is "Gopher"; Node1 points
\* to {ID: "X1"} and Node2 is nil.
Populated(t) ==
    IF t = UserQ
    THEN GroupVal(<<GroupVal(<<ScalarVal("Gopher")>>)>>)
    ELSE GroupVal(<<GroupVal(<<GroupVal(<<ScalarVal("X1")>>)>>), NilVal>>)

\* A V the caller filled before the call.
Dirty(t) == th[t].v0 # ZeroOf(th[t].shape)

\* The builds of Client.do whose decoder is given the body itself; the one
\* of part_002 hands it a drained stream (C4).
DecodingImpls == Impls \ {"options"}

(***************************************************************************)
(* C1: a 200 envelope with a data object and a non-empty errors array: the *)
(* binder runs on data before the call returns, every field of V whose key *)
(* has a non-null value is populated, every pointer field whose key is     *)
(* null is nil, and the call returns the GraphQL errors.                   *)
(***************************************************************************)
C1_PartialDataThenErrors ==
    \A t \in Threads :
        (/\ impl \in DecodingImpls
         /\ OKEnvelope(t)
         /\ DataSent(t) = <<GoodData(th[t].shape)>>
         /\ Len(ErrorsSent(t)) >= 1)
        => /\ th[t].err.kind = "graphql"
           /\ Len(th[t].err.errors) = Len(ErrorsSent(t))
           /\ Took(t, "bind")
           /\ th[t].v = Populated(th[t].shape)

\* Node2 held a value before the call and is nil after it; Node1 is filled.
C1_Witness ==
    /\ impl = "hasura"
    /\ OKEnvelope(1)
    /\ th[1].shape = NodeQ
    /\ Dirty(1)
    /\ DataSent(1) = <<GoodData(NodeQ)>>
    /\ Len(ErrorsSent(1)) = 1
    /\ th[1].err.kind = "graphql"
    /\ th[1].v = Populated(NodeQ)
    /\ th[1].v # th[1].v0

(***************************************************************************)
(* C2: a 200 envelope with a non-empty errors array and no data key: the   *)
(* call returns the GraphQL errors with the first error's message, the     *)
(* binder is not invoked, and V keeps the value it had before the call.    *)
(***************************************************************************)
C2_ErrorsWithoutData ==
    \A t \in Threads :
        (/\ impl \in {"hasura", "custom"}
         /\ OKEnvelope(t)
         /\ DataSent(t) = <<>>
         /\ Len(ErrorsSent(t)) >= 1)
        => /\ th[t].err.kind = "graphql"
           /\ th[t].err.msg = ErrMessage(1)
           /\ ~Took(t, "bind")
           /\ th[t].v = th[t].v0

(***************************************************************************)
(* C3: a response whose status is not 200: the call returns a server error *)
(* that carries the status line and the raw body, with the message         *)
(* `non-200 OK status code: <status line> body: <quoted body>`; nothing is *)
(* decoded or bound and V is unchanged.                                    *)
(***************************************************************************)
C3_Non200IsServerError ==
    \A t \in Threads :
        (impl = "typed" /\ Not200(t))
        => LET resp == th[t].resp[1] IN
           /\ th[t].err.kind = "status"
           /\ th[t].err.status = resp.status
           /\ th[t].err.body = RawOf(resp.body)
           /\ th[t].err.msg = "non-200 OK status code: " \o resp.status
                                \o " body: " \o Quote(RawOf(resp.body))
           /\ ~Took(t, "decode")
           /\ ~Took(t, "bind")
           /\ th[t].v = th[t].v0

(***************************************************************************)
(* C4: status 200 and a well-formed envelope whose data object matches V,  *)
(* without errors: the envelope is decoded, data is bound into V and the   *)
(* call returns nil, also when request options were supplied.              *)
(***************************************************************************)
C4_SuccessBindsAndReturnsNil ==
    \A t \in Threads :
        (/\ impl = "options"
         /\ OKEnvelope(t)
         /\ DataSent(t) = <<GoodData(th[t].shape)>>
         /\ Len(ErrorsSent(t)) = 0)
        => /\ th[t].err.kind = "nil"
           /\ Took(t, "decode")
           /\ Took(t, "bind")
           /\ th[t].v = Populated(th[t].shape)

(***************************************************************************)
(* C5: an empty, non-nil variables map gives the request body a nil map    *)
(* gives, byte for byte: no parenthesis in the query text, no variables    *)
(* key; for {User{Name}} the body is {"query":"{user{name}}"} and a        *)
(* newline.                                                                *)
(***************************************************************************)
C5_EmptyVariablesAsNil ==
    \A t \in Threads :
        (/\ th[t].pc = "inflight"
         /\ th[t].req.method = "POST"
         /\ th[t].variables = EmptyVars)
        => /\ th[t].req.body =
                 EncodeRequest(IF th[t].op = "query"
                               THEN constructQuery(synth, th[t].shape, NilVars)
                               ELSE constructMutation(synth, th[t].shape, NilVars),
                               NilVars)[1]
           /\ (th[t].op = "query" /\ th[t].shape = UserQ)
                 => th[t].req.body = "{\"query\":\"{user{name}}\"}\n"

(***************************************************************************)
(* C6: when encoding the request envelope, applying a request option or    *)
(* the HTTP exchange fails, the call returns that failure at once: no      *)
(* exchange after an encoding or option failure, no envelope decode and no *)
(* binder invocation after a transport failure, and V is unchanged.        *)
(***************************************************************************)
\* The exchange of thread t's call failed: it was started and gave no response.
ExchangeFailed(t) == Done(t) /\ Took(t, "exchange") /\ th[t].resp = <<>>

\* One of the call's options, defaults first, returns an error.
SomeOptionFails(t) ==
    \E i \in 1..Len(requestOptions \o th[t].opts) : (requestOptions \o th[t].opts)[i].fails

C6_FailuresShortCircuit ==
    \A t \in Threads :
        Done(t) =>
            /\ ~Encodable(th[t].variables)
                  => /\ th[t].err.kind = "encode"
                     /\ ~Took(t, "newrequest") /\ ~Took(t, "options")
                     /\ th[t].applied = <<>>
            /\ (impl = "options" /\ Took(t, "options") /\ SomeOptionFails(t))
                  => th[t].err.kind = "option"
            /\ ExchangeFailed(t) => th[t].err.kind = "transport"
            /\ th[t].err.kind \in {"encode", "option"}
                  => ~Took(t, "exchange") /\ th[t].resp = <<>>
            /\ th[t].err.kind \in {"encode", "option", "transport"}
                  => /\ ~Took(t, "decode")
                     /\ ~Took(t, "bind")
                     /\ th[t].v = th[t].v0

\* The exchange failed for a call whose options had all been applied.
C6_Witness ==
    /\ impl = "options"
    /\ ExchangeFailed(1)
    /\ th[1].applied = <<"d1", "c1">>
    /\ Dirty(1)
    /\ th[1].err.kind = "transport"
    /\ th[1].v = th[1].v0

(***************************************************************************)
(* C7: request options are applied to the built POST request one at a      *)
(* time, the client's defaults first and then the call's, each in the      *)
(* order given; the first one that returns an error ends the call with an  *)
(* OptionError, no later option is applied and no HTTP exchange happens.   *)
(***************************************************************************)
\* The ids of the options of thread t's call in the order the claim gives.
OptionIds(t) ==
    [i \in 1..(Len(requestOptions) + Len(th[t].opts)) |->
        IF i <= Len(requestOptions) THEN requestOptions[i].id
        ELSE th[t].opts[i - Len(requestOptions)].id]

OptionAt(t, i) ==
    IF i <= Len(requestOptions) THEN requestOptions[i]
    ELSE th[t].opts[i - Len(requestOptions)]

FailingAt(t) == {i \in 1..Len(OptionIds(t)) : OptionAt(t, i).fails}

C8_MessageIsFirstEntry ==
    \A t \in Threads :
        (/\ impl \in {"hasura", "cli"}
         /\ Done(t)
         /\ th[t].err.kind = "graphql")
        => th[t].err.msg = Member(ErrorsSent(t)[1], "message")[1].s

(***************************************************************************)
(* C9: a client starts with query-string mode disabled; after any sequence *)
(* of EnableQueryString / DisableQueryString calls an operation goes out   *)
(* as a GET with ?query=...&variables=... exactly when it is a query and   *)
(* the most recent toggle was EnableQueryString; every mutation, and every *)
(* query while the mode is disabled, goes out as a JSON POST.              *)
(***************************************************************************)
HasPrefix(s, prefix) == Len(s) >= Len(prefix) /\ SubSeq(s, 1, Len(prefix)) = prefix

C9_QueryStringMode ==
    \A t \in Threads :
        (impl = "qstring" /\ th[t].req # NoRequest) =>
            IF th[t].op = "query" /\ lastToggle = "EnableQueryString"
            THEN /\ th[t].req.method = "GET"
                 /\ th[t].req.body = ""
                 /\ HasPrefix(th[t].req.url, url \o "?query=" \o QueryEscape(th[t].query)
                                               \o "&variables=")
            ELSE /\ th[t].req.method = "POST"
                 /\ th[t].req.url = url
                 /\ th[t].req.header = PostHeader
                 /\ HasPrefix(th[t].req.body, "{\"query\":" \o JSONString(th[t].query))

\* A query sent after EnableQueryString.
C9_Witness ==
    /\ impl = "qstring"
    /\ lastToggle = "EnableQueryString"
    /\ th[1].pc = "inflight"
    /\ th[1].op = "query"
    /\ th[1].variables = NilVars
    /\ th[1].req.method = "GET"
    /\ th[1].req.url = "http://host/graphql?query=%7Buser%7Bname%7D%7D&variables=null"

(***************************************************************************)
(* C10: the client is safe for concurrent use: in every interleaving of    *)
(* concurrent calls to one client's methods (Query, Mutate and the         *)
(* toggles) no call writes client state without synchronization while      *)
(* another call reads or writes it.                                        *)
(***************************************************************************)
C10_NoUnsynchronizedAccess == ~race

(***************************************************************************)
(* What a call of a synthesizer function shows.                            *)
(***************************************************************************)
Constructed == pure.op = "construct"
Argued == pure.op = "arguments"
Printed == pure.op = "argtype"
Selected == pure.op = "select"
\* The variables map of the call has no entry (it is nil or empty).
NoVariables(variables) == variables.isNil \/ DOMAIN variables.m = {}

(***************************************************************************)
(* C11: for a selection string S and variables M, the assembled text of a  *)
(* query is `query(` variableDecls(M) `)` S when M is non-empty and S alone *)
(* when M is empty; that of a mutation is `mutation(` variableDecls(M) `)`  *)
(* S when M is non-empty and `mutation` S when M is empty.  Stated of the   *)
(* builds that test the size of M (query.go, part_006:12-26).              *)
(***************************************************************************)
C11_OperationText ==
    (Constructed /\ pure.synth = "len") =>
        LET S == query(pure.t)
            decls == queryArguments(pure.variables)
        IN  pure.out =
               IF ~NoVariables(pure.variables)
               THEN pure.kind \o "(" \o decls \o ")" \o S
               ELSE IF pure.kind = "query" THEN S ELSE "mutation" \o S

C11_Witness ==
    /\ Constructed
    /\ pure.synth = "len"
    /\ pure.kind = "mutation"
    /\ pure.t = UserQ
    /\ pure.variables = EmptyVars
    /\ pure.out = "mutation{user{name}}"

(***************************************************************************)
(* C12: variableDecls(M) is the concatenation, in ascending key order and  *)
(* with no separator, of `$` k `:` and the printed type of M[k] for every   *)
(* key k; the text is the same whatever order the map yields its keys in.  *)
(***************************************************************************)
C12_DeclsInKeyOrder ==
    Argued =>
        LET M == pure.variables.m
            ascending == CHOOSE q \in Perms(DOMAIN M) :
                            \A i, j \in 1..Len(q) : i < j => KeyRank(q[i]) < KeyRank(q[j])
        IN  pure.out = Concat([i \in 1..Len(ascending) |->
                          "$" \o ascending[i] \o ":"
                              \o writeArgumentType(M[ascending[i]].type, TRUE)])

C12_Witness ==
    /\ Argued
    /\ pure.ranged = <<"c", "a", "b">>
    /\ pure.variables.m["a"].type = SliceOf(GoString)
    /\ pure.variables.m["b"].type = IntT
    /\ pure.variables.m["c"].type = PtrTo(IntT)
    /\ pure.out = "$a:[ID!]!$b:Int!$c:Int"

RECURSIVE ReachesPairs(_)
\* Type t holds, where synthesis can get to, a sequence of two-element tuples.
ReachesPairs(t) ==
    CASE t.kind = "Slice" /\ t.elem[1].kind = "Array" -> t.elem[1].len = 2
      [] t.kind \in {"Ptr", "Slice"} -> ReachesPairs(t.elem[1])
      [] t.kind = "Struct" ->
            ~t.unmarshaler /\ \E i \in 1..Len(t.fields) : ReachesPairs(t.fields[i].type)
      [] OTHER -> FALSE

(***************************************************************************)
(* C13: query synthesis reads only the type of V, never its contents: for  *)
(* any two values of the same static type the synthesized selection string *)
(* is identical.  As stated: fails in query.go (C13_TypeOnly).  What holds *)
(* (C13_TypeOnlyWithoutPairs): the same, for every type that reaches no    *)
(* sequence of two-element tuples; of such a sequence the keys and the     *)
(* types of the values are read from V.                                    *)
(***************************************************************************)
C13_TypeOnly ==
    (Selected /\ pure.build = "valued") => pure.out = pure.out2

C13_TypeOnlyWithoutPairs ==
    (Selected /\ pure.build = "valued" /\ ~ReachesPairs(pure.t)) => pure.out = pure.out2

C13_Witness ==
    /\ Selected
    /\ pure.build = "valued"
    /\ pure.t = StructOf(<<Field("Viewer", <<"viewer: user(login: \"x\")">>, PtrTo(Inner)),
                           Field("Nodes", <<>>, SliceOf(Inner))>>)
    /\ pure.v = ValueOf(pure.t, "zero")
    /\ pure.w = ValueOf(pure.t, "full")
    /\ pure.v # pure.w
    /\ pure.out = Wrote("{viewer: user(login: \"x\"){name,height},nodes{name,height}}")
    /\ pure.out2 = pure.out

RECURSIVE BuiltFromNamed(_)
\* Type t is a named type, or a pointer, slice or array of such a type.
BuiltFromNamed(t) ==
    IF t.kind \in {"Ptr", "Slice", "Array"} THEN BuiltFromNamed(t.elem[1]) ELSE t.name # ""

RECURSIVE GraphQLType(_, _)
\* The printed GraphQL type that the recursive rule gives type t.
GraphQLType(t, required) ==
    CASE t.kind = "Ptr" -> GraphQLType(t.elem[1], FALSE)
      [] t.kind \in {"Slice", "Array"} ->
            "[" \o GraphQLType(t.elem[1], TRUE) \o "]" \o (IF required THEN "!" ELSE "")
      [] OTHER ->
            (IF t = GoString THEN "ID" ELSE t.name) \o (IF required THEN "!" ELSE "")

(***************************************************************************)
(* C14: for every variable type built from named types, pointers and       *)
(* slices/arrays the printed GraphQL type is the result of the recursive   *)
(* rule: a pointer prints its element with required=false, a slice/array   *)
(* prints `[`, its element with required=true and `]`, any other type its  *)
(* name (`ID` for the built-in string), and `!` follows exactly when the   *)
(* type is printed with required=true; so Int -> `Int!`, *Int -> `Int`,     *)
(* []Int -> `[Int!]!`, *[]Int -> `[Int!]`, []*Int -> `[Int]!`.  Fails for   *)
(* the queryArguments of part_006:163-191.                                 *)
(***************************************************************************)
C14_PrintedType ==
    (Printed /\ BuiltFromNamed(pure.t)) =>
        /\ pure.out = GraphQLType(pure.t, TRUE)
        /\ pure.t = IntT => pure.out = "Int!"
        /\ pure.t = PtrTo(IntT) => pure.out = "Int"
        /\ pure.t = SliceOf(IntT) => pure.out = "[Int!]!"
        /\ pure.t = PtrTo(SliceOf(IntT)) => pure.out = "[Int!]"
        /\ pure.t = SliceOf(PtrTo(IntT)) => pure.out = "[Int]!"

\* The declarations of an operation text: what precedes the selection of q.
DeclsOf(text, q) == SubSeq(text, 1, Len(text) - Len(q))

\* A declaration of the text has a type with no name in it: `:` or `[` is
\* followed at once by `!`, `]`, `)` or the next `$`.
HasEmptyTypeName(decls) ==
    \E i \in 1..Len(decls) :
        /\ Ch(decls, i) \in {":", "["}
        /\ i = Len(decls) \/ Ch(decls, i + 1) \in {"!", "]", ")", "$"}

(***************************************************************************)
(* C15: printing the GraphQL type of a variable whose host type has no     *)
(* declarable name (an anonymous struct, or a slice or pointer of one)     *)
(* fails with UnprintableType: no operation string containing an empty     *)
(* type name is ever produced.  Fails for writeArgumentType of query.go    *)
(* and part_006:56-82, which write the empty name.                         *)
(***************************************************************************)
C15_NoEmptyTypeName ==
    (Constructed /\ pure.synth = "len") =>
        ~HasEmptyTypeName(DeclsOf(pure.out, query(pure.t)))

\* The lowerCamelCase spellings of the field names of the pool.
LowerCamel(name) ==
    CASE name = "Me" -> "me"
      [] name = "ID" -> "id"
      [] name = "CreatedAt" -> "createdAt"
      [] name = "UpdatedAt" -> "updatedAt"
      [] name = "Labels" -> "labels"
      [] name = "Viewer" -> "viewer"
      [] name = "Nodes" -> "nodes"
      [] name = "Actor" -> "actor"
      [] name = "Attrs" -> "attrs"
      [] name = "Node" -> "node"
      [] name = "Bad" -> "bad"
      [] name = "Extra" -> "extra"

\* The field is embedded without a graphql tag.
EmbeddedUntagged(f) == f.anonymous /\ f.tag = <<>>

\* No field of record type t is embedded without a tag.
PlainRecord(t) ==
    t.kind = "Struct" /\ \A i \in 1..Len(t.fields) : ~EmbeddedUntagged(t.fields[i])

\* The builds of the synthesizer in query.go and part_006:84-128.
WriteQueryBuilds == {"valued", "typed"}

(***************************************************************************)
(* C16: the selection of a record type is `{`, one entry per field in      *)
(* declaration order separated by `,`, and `}`; an entry is the field's    *)
(* graphql tag verbatim when it has one, else the lowerCamelCase of its    *)
(* name, followed by the selection of the field's type.  E.g.              *)
(* struct{Me struct{Name; Height}} gives `{me{name,height}}`.  Stated of    *)
(* records without untagged embedded fields whose synthesis ends normally. *)
(***************************************************************************)
C16_RecordSelection ==
    (Selected /\ pure.build \in WriteQueryBuilds /\ PlainRecord(pure.t)
        /\ pure.out.panic = <<>>) =>
        pure.out.text =
            "{" \o JoinWith([i \in 1..Len(pure.t.fields) |->
                        LET f == pure.t.fields[i]
                        IN  (IF f.tag # <<>> THEN f.tag[1] ELSE LowerCamel(f.name))
                            \o Selection(pure.build, f.type, pure.v.kids[i]).text], ",")
                \o "}"

C16_Witness ==
    /\ Selected
    /\ pure.build = "valued"
    /\ pure.t = StructOf(<<Field("Me", <<>>, Inner), Field("CreatedAt", <<>>, DateTime)>>)
    /\ pure.out = Wrote("{me{name,height},createdAt}")

\* The record an embedded field holds, by value or through a pointer, and
\* its value.
EmbeddedRecord(t) == IF t.kind = "Ptr" THEN t.elem[1] ELSE t
EmbeddedValue(t, v) == IF t.kind = "Ptr" THEN ElemSafe(v) ELSE v

\* The selection text without its first and last character.
Unbraced(text) == SubSeq(text, 2, Len(text) - 1)

\* Record type t has a field embedded without a tag.
HasEmbedded(t) ==
    t.kind = "Struct" /\ \E i \in 1..Len(t.fields) : EmbeddedUntagged(t.fields[i])

(***************************************************************************)
(* C17: an anonymous embedded record field without a graphql tag, embedded *)
(* by value or through a pointer, is inlined: its own name is not emitted, *)
(* no braces are written for it, and its fields appear among the parent's  *)
(* entries.  Fails for a record embedded through a pointer.                *)
(***************************************************************************)
C17_EmbeddedInlined ==
    (Selected /\ pure.build \in WriteQueryBuilds /\ HasEmbedded(pure.t)
        /\ pure.out.panic = <<>>) =>
        pure.out.text =
            "{" \o JoinWith([i \in 1..Len(pure.t.fields) |->
                        LET f == pure.t.fields[i]
                            sub == Selection(pure.build, f.type, pure.v.kids[i]).text
                            own == Selection(pure.build, EmbeddedRecord(f.type),
                                             EmbeddedValue(f.type, pure.v.kids[i])).text
                        IN  IF EmbeddedUntagged(f) THEN Unbraced(own)
                            ELSE fieldName(f) \o sub], ",")
                \o "}"

\* T is an opaque scalar of the build: its pointer implements
\* json.Unmarshaler (query.go), or it is in the registry (go.mod).
OpaqueScalar(build, T) ==
    IF build = "registry" THEN T \in Scalars ELSE T.unmarshaler

RECURSIVE ReachesOpaque(_, _)
\* Type t is an opaque scalar, or pointers and slices of one.
ReachesOpaque(build, t) ==
    \/ OpaqueScalar(build, t)
    \/ t.kind \in {"Ptr", "Slice"} /\ ReachesOpaque(build, t.elem[1])

(***************************************************************************)
(* C18: a field whose type T is an opaque scalar (T's pointer implements   *)
(* the JSON custom-decode capability, or T is in the scalar registry),     *)
(* reached directly or through pointers and slices, contributes only its   *)
(* name to the selection: no brace is written for T.  Fails in query.go    *)
(* for an opaque scalar that is not a struct.                              *)
(***************************************************************************)
C18_ScalarOpacity ==
    (Selected /\ pure.build \in {"valued", "registry"} /\ PlainRecord(pure.t)
        /\ pure.out.panic = <<>>) =>
        pure.out.text =
            "{" \o JoinWith([i \in 1..Len(pure.t.fields) |->
                        LET f == pure.t.fields[i]
                        IN  fieldName(f)
                            \o (IF ReachesOpaque(pure.build, f.type) THEN ""
                                ELSE Selection(pure.build, f.type, pure.v.kids[i]).text)],
                     ",")
                \o "}"

RECURSIVE ReachesRejected(_)
\* Type t holds, where synthesis can get to, a plain mapping or a sequence
\* of tuples of a length other than 2.
ReachesRejected(t) ==
    CASE t.kind = "Map" -> TRUE
      [] t.kind = "Slice" /\ t.elem[1].kind = "Array" -> t.elem[1].len # 2
      [] t.kind \in {"Ptr", "Slice"} -> ReachesRejected(t.elem[1])
      [] t.kind = "Struct" ->
            ~t.unmarshaler /\ \E i \in 1..Len(t.fields) : ReachesRejected(t.fields[i].type)
      [] OTHER -> FALSE

\* What the ordered map pairs is to emit: `{`, each key followed by the
\* selection of its value (none for a nil value), `}`.
OrderedMapSelection(pairs) ==
    "{" \o Concat([i \in 1..Len(pairs.kids) |->
                LET key == pairs.kids[i].kids[1]
                    val == pairs.kids[i].kids[2]
                IN  key.kids[1].s
                    \o (IF val.nil THEN ""
                        ELSE Selection("valued", val.dyn[1], val.kids[1]).text)])
        \o "}"

(***************************************************************************)
(* C19: a sequence of two-element [key, value] tuples reached during       *)
(* synthesis emits `{`, for each tuple in sequence order its key followed  *)
(* by the selection of its value, and `}`; a plain mapping and a sequence  *)
(* of tuples of a length other than 2 are rejected, and no operation       *)
(* string is produced.  The rejections hold; the emission fails in         *)
(* query.go for a tuple with a nil value and for a sequence behind a nil   *)
(* pointer.                                                                *)
(***************************************************************************)
C19_OrderedMap ==
    (Selected /\ pure.build = "valued") =>
        IF ReachesRejected(pure.t) THEN pure.out.panic # <<>>
        ELSE /\ pure.out.panic = <<>>
             /\ PlainRecord(pure.t) =>
                  pure.out.text =
                     "{" \o JoinWith([i \in 1..Len(pure.t.fields) |->
                                 LET f == pure.t.fields[i]
                                 IN  fieldName(f)
                                     \o (IF f.type = PairsT
                                         THEN OrderedMapSelection(pure.v.kids[i])
                                         ELSE Selection("valued", f.type, pure.v.kids[i]).text)],
                              ",")
                         \o "}"

Unmarshaled == pure.op = "unmarshal"
\* Every byte of s is whitespace.
OnlyWhitespace(s) == \A i \in 1..Len(s) : Ch(s, i) \in Whitespace
\* The root value alone is bound without an error.
RootBinds == UnmarshalGraphQL(<<pure.root>>, FooQ, pure.prior).err = <<>>

(***************************************************************************)
(* C20: the binder accepts exactly one top-level JSON value: after the     *)
(* root value only whitespace may follow up to the end of the input, and   *)
(* any other following token makes the call fail with the message          *)
(* `invalid token '<token>' after top-level value`, '{' for two            *)
(* concatenated objects.                                                   *)
(***************************************************************************)
C20_SingleTopLevelValue ==
    (Unmarshaled /\ RootBinds) =>
        /\ OnlyWhitespace(pure.rest) => pure.out.err = <<>>
        /\ ~OnlyWhitespace(pure.rest) =>
              \E i, j \in 1..Len(pure.rest) :
                 /\ OnlyWhitespace(SubSeq(pure.rest, 1, i - 1))
                 /\ Ch(pure.rest, i) \notin Whitespace
                 /\ i <= j
                 /\ pure.out.err =
                       <<"invalid token '" \o SubSeq(pure.rest, i, j) \o "' after top-level value">>
        /\ pure.data = "{\"foo\":\"bar\"}{\"foo\":\"baz\"}" =>
              pure.out.err = <<"invalid token '{' after top-level value">>

C20_Witness ==
    /\ Unmarshaled
    /\ pure.data = "{\"foo\":\"bar\"}{\"foo\":\"baz\"}"
    /\ pure.prior = ZeroOf(FooQ)
    /\ pure.out.err = <<"invalid token '{' after top-level value">>

Decoded == pure.op = "decode"
\* Field i of the record val.
FieldVal(val, i) == val.kids[i]

RECURSIVE NoVisibleField(_, _, _)
\* No exported field among fields j.. of record type t, nor of the records
\* its inline fragments hold, goes by the name key.
NoVisibleField(t, key, j) ==
    \A k \in j..Len(t.fields) :
        LET f == t.fields[k]
        IN  \/ ~IsUpper(Ch(f.name, 1))
            \/ IF isGraphQLFragment(f)
               THEN Deref(f.type).kind # "Struct" \/ NoVisibleField(Deref(f.type), key, 1)
               ELSE ~hasGraphQLName(f, key)

\* The message for a key without a place among n destinations.
NoPlaceMessage(key, n) ==
    "struct field for \"" \o key \o "\" doesn't exist in any of " \o n \o " places to unmarshal"

\* An object is bound into a record.
DecodedObject == Decoded /\ pure.root.t = "obj" /\ pure.t.kind = "Struct"

\* C21: when an object is bound into a record and one of its keys matches no
\* visible (exported) field of the record or of its inline fragments, the
\* call fails; when that key is the first one the failure is `struct field
\* for "<key>" doesn't exist in any of 1 places to unmarshal` and the record
\* is left as it was; a key of a nested object that two fragments share is
\* reported with 2 places; an unexported field never takes a key, whatever
\* its name.
C21_Unplaceable ==
    /\ DecodedObject =>
          LET kvs == pure.root.kids
          IN  /\ \A i \in 1..Len(kvs) :
                    NoVisibleField(pure.t, kvs[i].k, 1) => pure.out.err # <<>>
              /\ (kvs # <<>> /\ NoVisibleField(pure.t, kvs[1].k, 1)) =>
                    /\ pure.out.err = <<NoPlaceMessage(kvs[1].k, "1")>>
                    /\ pure.out.val = pure.prior
              /\ pure.out.err = <<>> =>
                    \A i \in 1..Len(kvs) : ~NoVisibleField(pure.t, kvs[i].k, 1)
    /\ (Decoded /\ pure.t = UnexportedQ) =>
          pure.out.err = <<NoPlaceMessage("foo", "1")>>
    /\ (Decoded /\ pure.t = HalfExportedQ /\ Len(pure.root.kids) = 2) =>
          /\ pure.out.err = <<NoPlaceMessage("bar", "1")>>
          /\ FieldVal(pure.out.val, 1) = ScalarVal("x")
          /\ FieldVal(pure.out.val, 2) = FieldVal(pure.prior, 2)
    /\ (Decoded /\ pure.t = UnionQ /\ pure.root = Obj1("actor", Obj1("nope", JStr("x")))) =>
          pure.out.err = <<NoPlaceMessage("nope", "2")>>

\* TestUnmarshal_unexportedField: {"foo": "bar"} into struct{ foo String }.
C21_Witness ==
    /\ Decoded
    /\ pure.t = UnexportedQ
    /\ pure.root = Obj1("foo", JStr("bar"))
    /\ pure.out.err = <<"struct field for \"foo\" doesn't exist in any of 1 places to unmarshal">>

\* The value of key k in the members kvs, <<>> when absent.
KeyValue(kvs, k) ==
    LET at == {i \in 1..Len(kvs) : kvs[i].k = k}
    IN  IF at = {} THEN <<>> ELSE <<kvs[CHOOSE i \in at : TRUE].v>>

\* An object is bound into a record of two sibling fragments.
DecodedUnion == DecodedObject /\ pure.t \in {UnionQ, UnionTypenameQ}

\* The event {createdAt, actor{login}} as a fragment holds it.
EventValue(kvs) ==
    GroupVal(<<GroupVal(<<ScalarVal(KeyValue(KeyValue(kvs, "actor")[1].kids, "login")[1].s)>>),
               ScalarVal(KeyValue(kvs, "createdAt")[1].s)>>)

\* Both fragments hold the event of the object, and the __typename field
\* (when the record has one and the object the key) its value.
SiblingsAlike ==
    LET kvs == pure.root.kids
    IN  /\ FieldVal(pure.out.val, 1) = EventValue(kvs)
        /\ FieldVal(pure.out.val, 2) = EventValue(kvs)
        /\ (pure.t = UnionTypenameQ /\ KeyValue(kvs, "__typename") # <<>>) =>
              FieldVal(pure.out.val, 3) = ScalarVal(KeyValue(kvs, "__typename")[1].s)

FragmentIndex(name) == IF name = "ClosedEvent" THEN 1 ELSE 2

\* The union record val holds the object kvs as the binder that resolves
\* __typename leaves it: the type name, the event in the fragment on that
\* type, the other fragment as in before; byPointer when the field is a
\* *string.
ResolvedAs(val, before, kvs, byPointer) ==
    LET name == KeyValue(kvs, "__typename")[1].s
        on == FragmentIndex(name)
    IN  /\ FieldVal(val, 3) = (IF byPointer THEN GroupVal(<<ScalarVal(name)>>) ELSE ScalarVal(name))
        /\ FieldVal(val, on) = EventValue(kvs)
        /\ FieldVal(val, 3 - on) = FieldVal(before, 3 - on)

SliceBound(val, n) ==
    IF n.t = "null" THEN val = NilVal
    ELSE /\ ~val.nil
         /\ Len(val.kids) = Len(n.kids)
         /\ \A k \in 1..Len(n.kids) : val.kids[k] = ScalarVal(n.kids[k].s)

\* C24: a slice bound from a JSON array holds exactly the elements of the
\* array, whatever it held before; from [] it is empty and not nil; from
\* null it is nil.  At the root, in the fields of a record, and for a slice
\* of pointers to records.
C24_ArrayReset ==
    /\ (Decoded /\ pure.t = SliceOf(StringT)) =>
          (pure.out.err = <<>> /\ SliceBound(pure.out.val, pure.root))
    /\ (Decoded /\ pure.t = ArrayQ) =>
          /\ pure.out.err = <<>>
          /\ SliceBound(FieldVal(pure.out.val, 1), KeyValue(pure.root.kids, "foo")[1])
          /\ SliceBound(FieldVal(pure.out.val, 2), KeyValue(pure.root.kids, "bar")[1])
          /\ SliceBound(FieldVal(pure.out.val, 3), KeyValue(pure.root.kids, "baz")[1])
    /\ (Decoded /\ pure.t = ObjectPointerArrayQ) =>
          /\ pure.out.err = <<>>
          /\ ~FieldVal(pure.out.val, 1).nil
          /\ Len(FieldVal(pure.out.val, 1).kids) = Len(KeyValue(pure.root.kids, "foo")[1].kids)

\* TestUnmarshal_arrayReset: ["bar", "baz"] into a slice that held other
\* elements.
C24_Witness ==
    /\ Decoded
    /\ pure.t = SliceOf(StringT)
    /\ pure.prior = GroupVal(<<ScalarVal("initial"), ScalarVal("initial")>>)
    /\ pure.root = JArr(<<JStr("bar"), JStr("baz")>>)
    /\ pure.out.val = GroupVal(<<ScalarVal("bar"), ScalarVal("baz")>>)

\* The pointer val is nil for JSON null, else set and pointing at target.
PointerBound(val, n, target) ==
    IF n.t = "null" THEN val = NilVal
    ELSE ~val.nil /\ val.kids = <<target>>

\* The actor {databaseId, login} as a record holds it.
ActorValue(n) ==
    GroupVal(<<GroupVal(<<ScalarVal(KeyValue(n.kids, "databaseId")[1].s)>>),
               ScalarVal(KeyValue(n.kids, "login")[1].s)>>)

\* C25: a pointer bound from JSON null is nil, also when it was set before
\* the call; bound from any other value it is set and its target holds the
\* value.  For pointer fields, for every element of a slice of pointers,
\* and for a pointer to a record with an inline fragment.
C25_PointerReset ==
    /\ (Decoded /\ pure.t = PointerQ) =>
          LET foo == KeyValue(pure.root.kids, "foo")[1]
              bar == KeyValue(pure.root.kids, "bar")[1]
          IN  /\ pure.out.err = <<>>
              /\ PointerBound(FieldVal(pure.out.val, 1), foo, ScalarVal(foo.s))
              /\ PointerBound(FieldVal(pure.out.val, 2), bar, ScalarVal(bar.s))
    /\ (Decoded /\ pure.t = ObjectPointerArrayQ) =>
          LET items == KeyValue(pure.root.kids, "foo")[1].kids
              got == FieldVal(pure.out.val, 1).kids
          IN  /\ Len(got) = Len(items)
              /\ \A k \in 1..Len(items) :
                    PointerBound(got[k], items[k],
                                 GroupVal(<<ScalarVal(IF items[k].t = "null" THEN ""
                                                      ELSE KeyValue(items[k].kids, "name")[1].s)>>))
    /\ (Decoded /\ pure.t = AuthorEditorQ) =>
          LET author == KeyValue(pure.root.kids, "author")[1]
              editor == KeyValue(pure.root.kids, "editor")[1]
          IN  /\ pure.out.err = <<>>
              /\ FieldVal(pure.out.val, 1) = ActorValue(author)
              /\ PointerBound(FieldVal(pure.out.val, 2), editor,
                              IF editor.t = "null" THEN NilVal ELSE ActorValue(editor))

\* TestUnmarshal_pointer: Bar pointed at a string before the call and is
\* nil after it, Foo is set.
C25_Witness ==
    /\ Decoded
    /\ pure.t = PointerQ
    /\ pure.root = JObj(<<KV("foo", JStr("foo")), KV("bar", JNull)>>)
    /\ ~FieldVal(pure.prior, 2).nil
    /\ FieldVal(pure.out.val, 2) = NilVal
    /\ FieldVal(pure.out.val, 1) = GroupVal(<<ScalarVal("foo")>>)

\* Record types whose fields are all exported and none an inline fragment.
FlatRecord(t) ==
    /\ t.kind = "Struct"
    /\ \A j \in 1..Len(t.fields) : IsUpper(Ch(t.fields[j].name, 1)) /\ ~isGraphQLFragment(t.fields[j])

\* An object is bound into a flat record that was filled before, so that a
\* field that is bound changes.
DecodedFlat == DecodedObject /\ FlatRecord(pure.t) /\ pure.prior = FilledOf(pure.t)

\* The name field f goes by: (a) its graphql tag without arguments and
\* selection, else (b) its json tag, else (c) its own name whatever the case.
NamedByTagsOrName(f, key) ==
    IF f.tag # <<>> THEN TagName(f.tag[1]) = key
    ELSE IF f.json # <<>> THEN f.json[1] = key
    ELSE ToLower(f.name) = ToLower(key)

\* The same without (b): a json tag does not name a field.
NamedByGraphQLTagOrName(f, key) ==
    IF f.tag # <<>> THEN TagName(f.tag[1]) = key
    ELSE ToLower(f.name) = ToLower(key)

\* The fields of the flat record that changed are those that go by one of
\* the object's keys, up to the first key no field goes by; withJSON when a
\* json tag names a field.
PopulatedByName(withJSON) ==
    LET kvs == pure.root.kids
        fs == pure.t.fields
        named(f, key) == IF withJSON THEN NamedByTagsOrName(f, key)
                         ELSE NamedByGraphQLTagOrName(f, key)
        placed(i) == \E j \in 1..Len(fs) : named(fs[j], kvs[i].k)
    IN  \A j \in 1..Len(fs) :
            (FieldVal(pure.out.val, j) # FieldVal(pure.prior, j))
                <=> \E i \in 1..Len(kvs) :
                       named(fs[j], kvs[i].k) /\ \A h \in 1..(i - 1) : placed(h)

RoundTripped == pure.op = "roundtrip"

\* The words of n as MixedCaps spells them.
MixedCapsSpelling(n) ==
    [i \in 1..Len(n) |->
        IF ToUpper(n[i]) \in {"ID", "URL", "UI", "IP"} THEN ToUpper(n[i])
        ELSE ToUpperCh(Ch(n[i], 1)) \o ToLower(SubSeq(n[i], 2, Len(n[i])))]

\* Every word is an initialism or a plain word of two letters or more, and
\* no two initialisms stand side by side.
PlainWords(n) ==
    /\ \A i \in 1..Len(n) : ToUpper(n[i]) \in {"ID", "URL", "UI", "IP"} \/ Len(n[i]) >= 2
    /\ \A i \in 1..(Len(n) - 1) :
          ~(ToUpper(n[i]) \in {"ID", "URL", "UI", "IP"} /\ ToUpper(n[i + 1]) \in {"ID", "URL", "UI", "IP"})

RawDone(t) == Done(t) /\ th[t].raw

\* The bytes of the data member of the envelope thread t was answered with,
\* <<>> when there is none or it is null.
DataBytes(t) ==
    IF DataSent(t) = <<>> \/ DataSent(t)[1].t = "null" THEN <<>>
    ELSE <<Render(DataSent(t)[1])>>

\* The errors member is an array of well-formed entries, or absent.
ErrorsWellTyped(t) ==
    LET e == Member(th[t].resp[1].body.json[1], "errors")
    IN  e = <<>> \/ ~ErrorsIllTyped(e[1])

Times(t, step) == Cardinality({i \in 1..Len(th[t].trace) : th[t].trace[i] = step})

\* C29: when a call has returned, its response body was closed exactly
\* once if a response was obtained, as the last thing before the return
\* and after everything that reads it, whatever the exit (status other
\* than 200, body read failure, decode failure, binder failure, GraphQL
\* errors, success), and was not closed at all if there was no response.
C29_BodyClosedOnce ==
    \A t \in Threads :
        Done(t) =>
           /\ th[t].deferred = <<>>
           /\ IF th[t].resp # <<>>
              THEN /\ Times(t, "close") = 1
                   /\ th[t].trace[Len(th[t].trace)] = "close"
                   /\ Took(t, "exchange")
              ELSE Times(t, "close") = 0

\* A call that ends in a binder failure has closed the body.
C29_Witness ==
    /\ impl = "qstring"
    /\ Done(1)
    /\ th[1].resp # <<>>
    /\ th[1].err.kind = "bind"
    /\ Took(1, "bind")
    /\ Times(1, "close") = 1

\* The text holds sub somewhere.
HasSub(text, sub) ==
    \E i \in 1..(Len(text) - Len(sub) + 1) : SubSeq(text, i, i + Len(sub) - 1) = sub

\* How many of the first i characters of text are c.
CountIn(text, c, i) == Cardinality({k \in 1..i : Ch(text, k) = c})

\* Every closing brace closes an open one, and none stays open.
Balanced(text) ==
    /\ \A i \in 1..Len(text) : CountIn(text, "}", i) <= CountIn(text, "{", i)
    /\ CountIn(text, "}", Len(text)) = CountIn(text, "{", Len(text))

WellFormed(text) ==
    /\ Balanced(text)
    /\ ~HasSub(text, "{}")
    /\ ~HasSub(text, ",,")
    /\ ~HasSub(text, "{,")
    /\ ~HasSub(text, ",}")

\* C30: the selection synthesized for a record of tagged, untagged, scalar,
\* nested, embedded and empty-record fields has balanced braces and holds
\* no `{}`, no `,,`, no `{,` and no `,}`.
C30_WellFormedSelection ==
    (pure.op = "mixed" /\ pure.out.panic = <<>>) => WellFormed(pure.out.text)

====
